---- MODULE Spec2Model ----
(***************************************************************************)
(* The PLX87xx NTB driver, plx_hw.c. Its A-LUT (address lookup table)      *)
(* segment allocator: plx_add_a_lut_entry (map), plx_del_a_lut_entry       *)
(* (unmap), plx_a_lut_clear and plx_get_a_lut_entry_offset, over the       *)
(* segment manager of plx_alm.c and the register window; plx_hw_init and   *)
(* plx_hw_deinit; the GPIO pulses of plx_card_reset and                    *)
(* plx_card_press_power_button; the EEPROM update of plx_update_eeprom.    *)
(*                                                                         *)
(* Spec: the calls one after the other, with the record of the last call.  *)
(* SpecOffset: plx_get_a_lut_entry_offset over a full table.               *)
(* SpecReset, SpecInit: the calls and plx_a_lut_clear, from one table and  *)
(* from the tables plx_alm_init derives from several aperture lengths.     *)
(* SpecWatch: the calls, with one mapped range followed.                   *)
(* SpecExample: the table and the calls of the worked example.             *)
(* SpecConc: two callers, one step per access inside the lock.             *)
(* SpecAttach: a port that is attached, used, detached and probed again,   *)
(* one step per register access, lock operation and assignment of          *)
(* plx_hw_init, beside callers of map, unmap and of the public             *)
(* plx_a_lut_clear and plx_a_lut_disable, which take no lock.              *)
(* SpecLive: the same steps on one port, with the fairness of the spin     *)
(* lock.                                                                   *)
(* SpecGpio: two callers of reset and power button, the clock and the      *)
(* ways a wait ends.                                                       *)
(* SpecBits: the pulses beside the other changes of the GPIO register,     *)
(* recovery mode, SMB id and the programming of the defaults.              *)
(* SpecEeprom, SpecEepromLive: plx_update_eeprom, one step per register    *)
(* access, over an EEPROM controller that may stay busy and lose writes;   *)
(* the second with the fairness of the caller's steps.                     *)
(* SpecEepromSized: plx_update_eeprom, with the same steps, over images of  *)
(* the shortest and the longest accepted lengths on a blank EEPROM.        *)
(* SpecDma: two callers of plx_read_dma_mapped_mem, one step each for its  *)
(* plx_ioremap, its copy and its plx_iounmap, beside other users of        *)
(* plx_ioremap and plx_iounmap.                                            *)
(*                                                                         *)
(* plx_alm.c, plx_hw.h and vca_common.h are not part of the sources at     *)
(* hand: the segment manager and the chip's layout constants are modelled  *)
(* from the design document (sections 3, 4.1, 6), the other constants of   *)
(* the headers by the values their uses in plx_hw.c allow.                 *)
(***************************************************************************)
EXTENDS Integers, Sequences, FiniteSets, TLC

(* ------------------------------------------------------------------ *)
(* Bounds of the model                                                 *)
(* ------------------------------------------------------------------ *)

\* segments_num of the modelled manager (the real table has hundreds).
NumSegs == 3

\* segment_size = 2^SegShift bytes.
SegShift == 1

\* map is called with addr in 0..MaxAddr ...
MaxAddr == 5

\* ... and size in 1..MaxSize.
MaxSize == 2

\* A run is mapped at most MaxRef times at once.
MaxRef == 2

(* ------------------------------------------------------------------ *)
(* Program constants                                                   *)
(* ------------------------------------------------------------------ *)

\* errno values the facade tests and returns.
EEXIST == 17

ENOMEM == 12

\* sizeof(u32): the stride of one entry inside a sub-array.
SIZEOF_U32 == 4

\* Chip layout (plx_hw.h): entries per physical array, distance of the
\* second array, and the three sub-arrays of one array.
PLX_A_LUT_MAX_ARRAY == 256

PLX_A_LUT_ARRAY_OFFSET == 4096

PLX_A_LUT_LOWER_RE_MAP_SUBARRAY_OFFSET == 0

PLX_A_LUT_HIGHER_RE_MAP_SUBARRAY_OFFSET == 1024

PLX_A_LUT_PERMISSION_SUBARRAY_OFFSET == 2048

PLX_A_LUT_PERMISSION_READ_ENABLE == 1

PLX_A_LUT_PERMISSION_WRITE_ENABLE == 2

\* PLX_A_LUT_PERMISSION_READ_ENABLE | PLX_A_LUT_PERMISSION_WRITE_ENABLE
PermRW == PLX_A_LUT_PERMISSION_READ_ENABLE + PLX_A_LUT_PERMISSION_WRITE_ENABLE

\* What plx_alm_add_entry returns when no run fits.
ALM_NO_SPACE == 0 - ENOMEM

\* addr_out of a call that never stored to *addr_out.
NoAddr == 0 - 1

(* ------------------------------------------------------------------ *)
(* Arithmetic helpers                                                  *)
(* ------------------------------------------------------------------ *)

RECURSIVE Pow2(_)
Pow2(n) == IF n = 0 THEN 1 ELSE 2 * Pow2(n - 1)

\* a & ~m, bit by bit.
RECURSIVE AndNot(_, _)
AndNot(a, m) ==
    IF a = 0 THEN 0
    ELSE (a % 2) * (1 - (m % 2)) + 2 * AndNot(a \div 2, m \div 2)

\* a & m, bit by bit.
RECURSIVE And(_, _)
And(a, m) ==
    IF a = 0 \/ m = 0 THEN 0
    ELSE (a % 2) * (m % 2) + 2 * And(a \div 2, m \div 2)

\* (u32)(a >> 32)
Hi32(a) == (a \div 65536) \div 65536

\* (u32)a
Lo32(a) == (a % 65536) + 65536 * ((a \div 65536) % 65536)

DIV_ROUND_UP(a, b) == (a + b - 1) \div b

SetMin(S) == CHOOSE x \in S : \A y \in S : x <= y

VARIABLES
    segment_size,      \* a_lut_manager.segment_size
    segments_num,      \* a_lut_manager.segments_num
    a_lut_array_base,  \* xdev->a_lut_array_base
    entries,           \* a_lut_manager bookkeeping, one record per segment
    regs,              \* the A-LUT registers of the port, by offset
    alm_lock,          \* xdev->alm_lock: 1 while held
    last,              \* the last call: its arguments and results
    log,               \* the lock, register and barrier events of the last call
    pre,               \* entries as they were when the last call started
    hist,              \* the callers' view of the windows they hold (see below)
    rt,                \* set when the last call unmapped what the call before it mapped
    idx,               \* argument of plx_get_a_lut_entry_offset
    off,               \* its result
    aper_len,          \* xdev->aper.len, the length plx_alm_init was given
    procs,             \* the callers inside a call: their position and locals
    script,            \* the calls made so far, while they follow an example
    watch,             \* one mapped range, and the address its first map returned
    dev,               \* the other fields of xdev: sides, locks, timestamps
    env                \* what surrounds the driver: clock, completions, EEPROM

vars == <<segment_size, segments_num, a_lut_array_base, entries, regs,
          alm_lock, last, log, pre, hist, rt, idx, off, aper_len, procs,
          script, watch, dev, env>>

(* ------------------------------------------------------------------ *)
(* Register layout                                                     *)
(* ------------------------------------------------------------------ *)

\* Mutant: the second array's offset is left out.
plx_get_a_lut_entry_offset_OneArray(i) ==
    (i % PLX_A_LUT_MAX_ARRAY) * SIZEOF_U32

plx_get_a_lut_entry_offset(i) ==
    LET array_offset == IF i >= PLX_A_LUT_MAX_ARRAY
                        THEN PLX_A_LUT_ARRAY_OFFSET ELSE 0
    IN  array_offset + (i % PLX_A_LUT_MAX_ARRAY) * SIZEOF_U32

\* a_lut_array_base as plx_hw_init derives it.
ArrayBase(num_ntbs, link_side, port_id) ==
    IF num_ntbs = 2
    THEN IF link_side = 0
         THEN (IF port_id = 0 THEN 229376 ELSE 237568)
         ELSE (IF port_id = 0 THEN 233472 ELSE 241664)
    ELSE IF link_side = 0 THEN 229376 ELSE 237568

Segs == 0 .. (segments_num - 1)

SubArrays == {PLX_A_LUT_LOWER_RE_MAP_SUBARRAY_OFFSET,
              PLX_A_LUT_HIGHER_RE_MAP_SUBARRAY_OFFSET,
              PLX_A_LUT_PERMISSION_SUBARRAY_OFFSET}

\* The register offsets of the port's A-LUT entries.
RegOffsets(base, n) ==
    { base + plx_get_a_lut_entry_offset(i) + s : i \in 0 .. (n - 1), s \in SubArrays }

LowerOff(i)  == a_lut_array_base + plx_get_a_lut_entry_offset(i)
                    + PLX_A_LUT_LOWER_RE_MAP_SUBARRAY_OFFSET

HigherOff(i) == a_lut_array_base + plx_get_a_lut_entry_offset(i)
                    + PLX_A_LUT_HIGHER_RE_MAP_SUBARRAY_OFFSET

PermOff(i)   == a_lut_array_base + plx_get_a_lut_entry_offset(i)
                    + PLX_A_LUT_PERMISSION_SUBARRAY_OFFSET

(* ------------------------------------------------------------------ *)
(* Register window and lock: every access is appended to the call's    *)
(* event log. h = [regs, log, lock].                                   *)
(* ------------------------------------------------------------------ *)

Ev(k, o, v) == [k |-> k, off |-> o, val |-> v]

plx_mmio_write(h, v, o) ==
    [h EXCEPT !.regs = [o2 \in DOMAIN h.regs |-> IF o2 = o THEN v ELSE h.regs[o2]],
              !.log  = Append(h.log, Ev("write", o, v))]

plx_mmio_read(h, o) == [h EXCEPT !.log = Append(h.log, Ev("read", o, 0))]

wmb(h) == [h EXCEPT !.log = Append(h.log, Ev("wmb", 0, 0))]

mb(h) == [h EXCEPT !.log = Append(h.log, Ev("mb", 0, 0))]

spin_lock(h) == [h EXCEPT !.lock = 1, !.log = Append(h.log, Ev("lock", 0, 0))]

spin_unlock(h) == [h EXCEPT !.lock = 0, !.log = Append(h.log, Ev("unlock", 0, 0))]

(* ------------------------------------------------------------------ *)
(* Segment manager (plx_alm.c), from the design document, section 4.1. *)
(* One record per segment: counter is the reference count (0 = FREE),  *)
(* start and count the run the segment belongs to, value the masked    *)
(* base address of that run.                                           *)
(* ------------------------------------------------------------------ *)

FreeEntry == [counter |-> 0, start |-> 0, count |-> 0, value |-> 0]

\* "reset(): clears all allocation bookkeeping to empty/free"
plx_alm_reset(n) == [i \in 0 .. (n - 1) |-> FreeEntry]

\* The segments of the run that starts at s.
RunSegs(e, s) == s .. (s + e[s].count - 1)

\* "computes how many contiguous segments the [addr,addr+size) range spans"
SegmentsNeeded(addr, size, segsize) ==
    DIV_ROUND_UP(And(addr, segsize - 1) + size, segsize)

\* Mutant: no allocated run is ever found again.
ExistingRuns_None(e, base, n) == {}

\* Mutant: a run that starts at the same base matches whatever its length.
ExistingRuns_SameBase(e, base, n) ==
    { s \in DOMAIN e : /\ e[s].counter > 0
                       /\ e[s].start = s
                       /\ e[s].value = base }

\* Starts of the allocated runs "covering exactly that masked range".
ExistingRuns(e, base, n) ==
    { s \in DOMAIN e : /\ e[s].counter > 0
                       /\ e[s].start = s
                       /\ e[s].value = base
                       /\ e[s].count = n }

\* Mutant: a start qualifies when n segments are free from it on, contiguous
\* or not.
FreeRuns_Scattered(e, n) ==
    { s \in DOMAIN e : /\ (s + n - 1) \in DOMAIN e
                       /\ e[s].counter = 0
                       /\ Cardinality({ i \in DOMAIN e : i >= s /\ e[i].counter = 0 }) >= n }

\* Starts of the free contiguous runs of n segments: every segment of
\* s .. s+n-1 is a segment of the table and is FREE. The specifications apply
\* it to n >= 1; section 4.1 has no rule of its own for a range that spans no
\* segment, for which first fit taken by the letter starts at index 0.
FreeRuns(e, n) ==
    { s \in DOMAIN e : \A i \in s .. (s + n - 1) :
                           i \in DOMAIN e /\ e[i].counter = 0 }

\* add_entry(addr, size) -> segment_id, segments_num_used
plx_alm_add_entry(e, addr, size, segsize) ==
    LET base  == AndNot(addr, segsize - 1)
        n     == SegmentsNeeded(addr, size, segsize)
        found == ExistingRuns(e, base, n)
        free  == FreeRuns(e, n)
    IN  IF found # {}
        THEN LET s == SetMin(found)
             IN  [err |-> 0 - EEXIST, segment_id |-> s, segments_num |-> n,
                  entries |-> [i \in DOMAIN e |->
                                 IF i \in RunSegs(e, s)
                                 THEN [e[i] EXCEPT !.counter = @ + 1]
                                 ELSE e[i]]]
        ELSE IF free # {}
        THEN LET s == SetMin(free)
             IN  [err |-> 0, segment_id |-> s, segments_num |-> n,
                  entries |-> [i \in DOMAIN e |->
                                 IF i \in s .. (s + n - 1)
                                 THEN [counter |-> 1, start |-> s, count |-> n,
                                       value |-> base]
                                 ELSE e[i]]]
        ELSE [err |-> ALM_NO_SPACE, segment_id |-> 0, segments_num |-> 0,
              entries |-> e]

\* Mutant: only the segment asked for is released, not its run.
plx_alm_del_entry_OneSegment(e, segment_id) ==
    IF segment_id \notin DOMAIN e \/ e[segment_id].counter = 0
    THEN [start_segment |-> 0, segments_num |-> 0, entries |-> e]
    ELSE IF e[segment_id].counter > 1
         THEN [start_segment |-> 0, segments_num |-> 0,
               entries |-> [e EXCEPT ![segment_id].counter = @ - 1]]
         ELSE [start_segment |-> segment_id, segments_num |-> 1,
               entries |-> [e EXCEPT ![segment_id] = FreeEntry]]

\* del_entry(segment_id) -> start_segment, segments_freed: "decrements
\* reference count of the run containing segment_id; when the run's reference
\* count reaches zero, marks those segments free and reports the freed range";
\* "if still referenced, reports zero freed segments".
\* run is the set of segments of the run containing segment_id. Section 4.3
\* has a segment either FREE or ALLOCATED(ref_count >= 1) and no transition on
\* del_entry but ALLOCATED(n) -> ALLOCATED(n-1) and ALLOCATED(1) -> FREE, so a
\* FREE segment is in no run: run is empty, no count is decremented and none
\* reaches zero. What plx_alm.c does with a FREE segment is not in the
\* sources; the caller sets *start_segment and *segments_num to 0 before the
\* call (plx_hw.c:632-633).
plx_alm_del_entry(e, segment_id) ==
    LET run   == IF segment_id \in DOMAIN e /\ e[segment_id].counter > 0
                 THEN RunSegs(e, e[segment_id].start)
                 ELSE {}
        freed == { i \in run : e[i].counter = 1 }
    IN  [start_segment |-> IF freed = {} THEN 0 ELSE SetMin(freed),
         segments_num  |-> Cardinality(freed),
         entries |-> [i \in DOMAIN e |->
                        IF i \in freed THEN FreeEntry
                        ELSE IF i \in run THEN [e[i] EXCEPT !.counter = @ - 1]
                        ELSE e[i]]]

(* ------------------------------------------------------------------ *)
(* plx_add_a_lut_entry (map)                                           *)
(* ------------------------------------------------------------------ *)

\* Mutant: the result of plx_alm_add_entry is not tested.
MapFailed_Never(err) == FALSE

\* if (err && err != -EEXIST) goto failed;
MapFailed(err) == err # 0 /\ err # (0 - EEXIST)

\* Mutant: the run is programmed on the already-exists path too.
MapPrograms_Always(err) == TRUE

\* if (err == 0) { program the run }
MapPrograms(err) == err = 0

\* Mutant: the permission is written before the remap address.
ProgramEntry_PermFirst(h, i, a) ==
    LET h1 == plx_mmio_write(h, PermRW, PermOff(i))
        h2 == wmb(h1)
        h3 == plx_mmio_write(h2, Hi32(a), HigherOff(i))
    IN  plx_mmio_write(h3, Lo32(a), LowerOff(i))

\* One iteration of the programming loop, entry i with remap address a:
\* higher remap, lower remap, wmb, permission.
ProgramEntry(h, i, a) ==
    LET h1 == plx_mmio_write(h, Hi32(a), HigherOff(i))
        h2 == plx_mmio_write(h1, Lo32(a), LowerOff(i))
        h3 == wmb(h2)
    IN  plx_mmio_write(h3, PermRW, PermOff(i))

\* Mutant: addr_masked is not advanced.
NextMasked_Stuck(a, segsize) == a

\* addr_masked += segment_size, at the end of an iteration.
NextMasked(a, segsize) == a + segsize

\* for (i = segment_id; i < segment_id + segments_num; i++)
RECURSIVE ProgramRun(_, _, _, _, _)
ProgramRun(h, i, end, a, segsize) ==
    IF i >= end THEN h
    ELSE ProgramRun(ProgramEntry(h, i, a), i + 1, end, NextMasked(a, segsize), segsize)

\* Mutant: the posted writes are not read back.
DrainWrites_NoRead(h, segment_id, n) == mb(h)

\* mb(); if (last_permission_reg) plx_mmio_read(last_permission_reg);
DrainWrites(h, segment_id, n) ==
    LET last_permission_reg == IF n > 0 THEN PermOff(segment_id + n - 1) ELSE 0
    IN  IF last_permission_reg # 0
        THEN plx_mmio_read(mb(h), last_permission_reg)
        ELSE mb(h)

\* Mutant: the offset inside the segment is dropped.
TranslatedAddr_NoOffset(segment_id, addr, segsize) ==
    segment_id * segsize

\* Mutant: the offset is taken from the whole address.
TranslatedAddr_Unmasked(segment_id, addr, segsize) ==
    segment_id * segsize + addr

\* *addr_out = segment_id * (u64)segment_size + (addr & translation_mask);
TranslatedAddr(segment_id, addr, segsize) ==
    segment_id * segsize + And(addr, segsize - 1)

\* Mutant: the failure path returns with the lock held.
MapFailedExit_NoUnlock(h) == h

\* failed: spin_unlock(&xdev->alm_lock); return -ENOMEM;
MapFailedExit(h) == spin_unlock(h)

\* The call after plx_alm_add_entry returned r, with the lock held in h1.
MapAfterAlm(h1, r, addr, addr_masked, segsize) ==
    IF MapFailed(r.err)
    THEN [h |-> MapFailedExit(h1), entries |-> r.entries,
          ret |-> 0 - ENOMEM, addr_out |-> NoAddr, err |-> r.err,
          segment_id |-> r.segment_id, segments_num |-> r.segments_num]
    ELSE [h |-> spin_unlock(
                    IF MapPrograms(r.err)
                    THEN DrainWrites(
                             ProgramRun(h1, r.segment_id,
                                        r.segment_id + r.segments_num,
                                        addr_masked, segsize),
                             r.segment_id, r.segments_num)
                    ELSE h1),
          entries |-> r.entries,
          ret |-> 0,
          addr_out |-> TranslatedAddr(r.segment_id, addr, segsize),
          err |-> r.err,
          segment_id |-> r.segment_id, segments_num |-> r.segments_num]

\* The whole call, from the state h0 = [regs, log, lock] and bookkeeping e.
plx_add_a_lut_entry(h0, e, addr, size, segsize) ==
    MapAfterAlm(spin_lock(h0), plx_alm_add_entry(e, addr, size, segsize),
                addr, AndNot(addr, segsize - 1), segsize)

(* ------------------------------------------------------------------ *)
(* plx_del_a_lut_entry (unmap)                                         *)
(* ------------------------------------------------------------------ *)

\* Mutant: the segment index is rounded up.
DelSegmentId_RoundUp(addr, segsize) == DIV_ROUND_UP(addr, segsize)

\* u32 segment_id = addr / (u64)segment_size;
DelSegmentId(addr, segsize) == addr \div segsize

\* Mutant: the first address past the end is let through.
DelOutOfRange_OffByOne(addr, n, segsize) == addr > n * segsize

\* if (addr >= segments_num * segment_size) return;
DelOutOfRange(addr, n, segsize) == addr >= n * segsize

\* Mutant: the loop runs once more, and without the test of segments_num.
DelClearRange_Inclusive(start_segment, n) ==
    start_segment .. (start_segment + n)

\* if (segments_num) for (i = start_segment; i < start_segment + segments_num; i++)
DelClearRange(start_segment, n) ==
    IF n # 0 THEN start_segment .. (start_segment + n - 1) ELSE {}

\* Mutant: the remap address of a freed entry is zeroed too.
RECURSIVE ClearRun_AllFields(_, _)
ClearRun_AllFields(h, S) ==
    IF S = {} THEN h
    ELSE LET i  == SetMin(S)
             h1 == plx_mmio_write(h, 0, PermOff(i))
             h2 == plx_mmio_write(h1, 0, HigherOff(i))
         IN  ClearRun_AllFields(plx_mmio_write(h2, 0, LowerOff(i)), S \ {i})

\* plx_mmio_write(0, a_lut_array_base + permission_offset), lowest index first.
RECURSIVE ClearRun(_, _)
ClearRun(h, S) ==
    IF S = {} THEN h
    ELSE LET i == SetMin(S)
         IN  ClearRun(plx_mmio_write(h, 0, PermOff(i)), S \ {i})

plx_del_a_lut_entry(h0, e, addr, n, segsize) ==
    LET segment_id == DelSegmentId(addr, segsize)
    IN  IF DelOutOfRange(addr, n, segsize)
        THEN [h |-> h0, entries |-> e, segment_id |-> segment_id,
              start_segment |-> 0, segments_num |-> 0, rejected |-> TRUE]
        ELSE LET h1 == spin_lock(h0)
                 r  == plx_alm_del_entry(e, segment_id)
                 h2 == ClearRun(h1, DelClearRange(r.start_segment, r.segments_num))
             IN  [h |-> spin_unlock(h2), entries |-> r.entries,
                  segment_id |-> segment_id,
                  start_segment |-> r.start_segment,
                  segments_num |-> r.segments_num, rejected |-> FALSE]

(* ------------------------------------------------------------------ *)
(* The callers' view, kept beside the program's state: for the window  *)
(* that starts at segment s, out is the number of maps that returned   *)
(* an address in it and were not unmapped yet, base and n the range of *)
(* the first of them, progs the number of read+write permission writes *)
(* maps made to its entries.                                           *)
(* ------------------------------------------------------------------ *)

NoWindow == [out |-> 0, base |-> 0, n |-> 0, progs |-> 0]

\* Number of events of the log that write value v at offset o.
RECURSIVE WritesOf(_, _, _)
WritesOf(l, o, v) ==
    IF l = <<>> THEN 0
    ELSE (IF Head(l).k = "write" /\ Head(l).off = o /\ Head(l).val = v THEN 1 ELSE 0)
         + WritesOf(Tail(l), o, v)

RECURSIVE SumOver(_, _, _, _)
SumOver(l, S, sub, v) ==
    IF S = {} THEN 0
    ELSE LET i == SetMin(S)
         IN  WritesOf(l, a_lut_array_base + plx_get_a_lut_entry_offset(i) + sub, v)
             + SumOver(l, S \ {i}, sub, v)

HistAfterMap(hs, r, addr, size) ==
    IF r.ret # 0 THEN hs
    ELSE LET s  == r.addr_out \div segment_size
             n  == SegmentsNeeded(addr, size, segment_size)
             w  == IF s \in DOMAIN hs /\ hs[s].out > 0 THEN hs[s]
                   ELSE [out |-> 0, base |-> AndNot(addr, segment_size - 1),
                         n |-> n, progs |-> 0]
             pw == SumOver(r.h.log, s .. (s + w.n - 1),
                           PLX_A_LUT_PERMISSION_SUBARRAY_OFFSET, PermRW)
         IN  [i \in DOMAIN hs |->
                IF i = s THEN [w EXCEPT !.out = @ + 1, !.progs = @ + pw]
                ELSE hs[i]]

HistAfterUnmap(hs, addr) ==
    LET g == addr \div segment_size
    IN  [i \in DOMAIN hs |->
           IF hs[i].out > 0 /\ g \in i .. (i + hs[i].n - 1)
           THEN (IF hs[i].out = 1 THEN NoWindow ELSE [hs[i] EXCEPT !.out = @ - 1])
           ELSE hs[i]]

\* A map at once followed by the unmap of the address it returned: rt keeps
\* the bookkeeping the map started from.
NoRoundTrip == [hit |-> FALSE, before |-> <<>>]

RoundTrip(l, p, addr) ==
    IF l.op = "map" /\ l.ret = 0 /\ l.addr_out = addr
    THEN [hit |-> TRUE, before |-> p]
    ELSE NoRoundTrip

(* ------------------------------------------------------------------ *)
(* State machine                                                       *)
(* ------------------------------------------------------------------ *)

\* The two-array table holds at most this many entries (section 3).
TableCapacity == 2 * PLX_A_LUT_MAX_ARRAY

NoCall == [op |-> "init", addr |-> 0, size |-> 0, ret |-> 0, addr_out |-> NoAddr,
           err |-> 0, segment_id |-> 0, start |-> 0, segments_num |-> 0]

\* No caller is inside a call.
Procs == {"p", "q"}

Idle == [pc |-> "idle", op |-> "none", addr |-> 0, size |-> 0, i |-> 0, a |-> 0,
         r |-> [err |-> 0, segment_id |-> 0, segments_num |-> 0, entries |-> <<>>],
         log |-> <<>>, ret |-> 0]

\* No range is watched. Of a watched range: addr and size, the address its
\* first map returned, whether other calls were made since, whether it was
\* mapped again, and whether every further map returned the same address.
NoWatch == [on |-> FALSE, addr |-> 0, size |-> 0, out |-> NoAddr,
            between |-> FALSE, again |-> FALSE, ok |-> TRUE]

\* The fields of xdev that the A-LUT calls do not read: the port is attached,
\* its translation is programmed on this side, no GPIO or EEPROM call is made.
NoDev == [attached |-> TRUE, link_side |-> 0, a_lut_peer |-> TRUE, reg_base |-> 0]

\* Nothing of the surroundings takes part.
NoEnv == [jiffies |-> 0]

\* The state plx_hw_init leaves on a port whose table is in its power-on
\* state: port 0 of a device with two NTBs, on either side of the link.
Init ==
    /\ segment_size = Pow2(SegShift)
    /\ segments_num = NumSegs
    /\ aper_len = NumSegs * Pow2(SegShift)
    /\ \E link_side \in {0, 1} : a_lut_array_base = ArrayBase(2, link_side, 0)
    /\ entries = plx_alm_reset(NumSegs)
    /\ regs = [o \in RegOffsets(a_lut_array_base, NumSegs) |-> 0]
    /\ alm_lock = 0
    /\ last = NoCall
    /\ log = <<>>
    /\ pre = entries
    /\ hist = [i \in 0 .. (NumSegs - 1) |-> NoWindow]
    /\ rt = NoRoundTrip
    /\ idx = 0
    /\ off = 0
    /\ procs = [p \in Procs |-> Idle]
    /\ script = <<>>
    /\ watch = NoWatch
    /\ dev = NoDev
    /\ env = NoEnv

\* What a map that returned r leaves in the device and with its caller.
MapEffect(r, addr, size) ==
    /\ \A i \in DOMAIN r.entries : r.entries[i].counter <= MaxRef
    /\ entries' = r.entries
    /\ regs' = r.h.regs
    /\ alm_lock' = r.h.lock
    /\ hist' = HistAfterMap(hist, r, addr, size)

MapCall(addr, size) ==
    /\ alm_lock = 0
    /\ \E r \in {plx_add_a_lut_entry([regs |-> regs, log |-> <<>>, lock |-> alm_lock],
                                    entries, addr, size, segment_size)} :
           /\ MapEffect(r, addr, size)
           /\ log' = r.h.log
           /\ last' = [op |-> "map", addr |-> addr, size |-> size, ret |-> r.ret,
                       addr_out |-> r.addr_out, err |-> r.err,
                       segment_id |-> r.segment_id, start |-> r.segment_id,
                       segments_num |-> r.segments_num]
    /\ pre' = entries
    /\ rt' = NoRoundTrip
    /\ UNCHANGED <<segment_size, segments_num, a_lut_array_base, aper_len, dev, env,
                   idx, off, procs>>

Map(addr, size) == MapCall(addr, size) /\ UNCHANGED <<script, watch>>

\* What an unmap that returned r leaves in the device and with its caller.
UnmapEffect(r, addr) ==
    /\ entries' = r.entries
    /\ regs' = r.h.regs
    /\ alm_lock' = r.h.lock
    /\ hist' = IF r.rejected THEN hist ELSE HistAfterUnmap(hist, addr)

UnmapCall(addr) ==
    /\ DelOutOfRange(addr, segments_num, segment_size) \/ alm_lock = 0
    /\ \E r \in {plx_del_a_lut_entry([regs |-> regs, log |-> <<>>, lock |-> alm_lock],
                                    entries, addr, segments_num, segment_size)} :
           /\ UnmapEffect(r, addr)
           /\ log' = r.h.log
           /\ last' = [op |-> "unmap", addr |-> addr, size |-> 0,
                       ret |-> IF r.rejected THEN 1 ELSE 0,
                       addr_out |-> NoAddr, err |-> 0,
                       segment_id |-> r.segment_id, start |-> r.start_segment,
                       segments_num |-> r.segments_num]
    /\ pre' = entries
    /\ rt' = RoundTrip(last, pre, addr)
    /\ UNCHANGED <<segment_size, segments_num, a_lut_array_base, aper_len, dev, env,
                   idx, off, procs>>

Unmap(addr) == UnmapCall(addr) /\ UNCHANGED <<script, watch>>

Next ==
    \/ \E addr \in 0 .. MaxAddr, size \in 1 .. MaxSize : Map(addr, size)
    \/ \E addr \in 0 .. (segments_num * segment_size + 1) : Unmap(addr)

Spec == Init /\ [][Next]_vars

\* plx_get_a_lut_entry_offset on its own: a table of one full array or of
\* two, no run allocated, and every index of the table as argument.
InitOffset ==
    /\ segments_num \in {PLX_A_LUT_MAX_ARRAY, TableCapacity}
    /\ segment_size = Pow2(SegShift)
    /\ aper_len = segments_num * segment_size
    /\ a_lut_array_base = ArrayBase(1, 0, 0)
    /\ entries = plx_alm_reset(0)
    /\ regs = [o \in {} |-> 0]
    /\ alm_lock = 0
    /\ last = NoCall
    /\ log = <<>>
    /\ pre = entries
    /\ hist = [i \in {} |-> NoWindow]
    /\ rt = NoRoundTrip
    /\ idx = 0
    /\ off = plx_get_a_lut_entry_offset(0)
    /\ procs = [p \in Procs |-> Idle]
    /\ script = <<>>
    /\ watch = NoWatch
    /\ dev = NoDev
    /\ env = NoEnv

EntryOffset(i) ==
    /\ idx' = i
    /\ off' = plx_get_a_lut_entry_offset(i)
    /\ UNCHANGED <<segment_size, segments_num, a_lut_array_base, entries, regs,
                   alm_lock, last, log, pre, hist, rt, aper_len, procs,
                   script, watch, dev, env>>

NextOffset == \E i \in Segs : EntryOffset(i)

SpecOffset == InitOffset /\ [][NextOffset]_vars

(* ------------------------------------------------------------------ *)
(* plx_a_lut_clear (reset of the table)                                *)
(* ------------------------------------------------------------------ *)

\* Mutant: the loop stops one entry short.
ClearAllRange_SkipLast(n) == 0 .. (n - 2)

\* for (i = 0; i < xdev->a_lut_manager.segments_num; i++)
ClearAllRange(n) == 0 .. (n - 1)

\* The body of the loop: permission, higher remap, lower remap, all to zero.
ClearEntry(h, offset, i) ==
    LET entry_offset == plx_get_a_lut_entry_offset(i) + offset
        h1 == plx_mmio_write(h, 0, entry_offset + PLX_A_LUT_PERMISSION_SUBARRAY_OFFSET)
        h2 == plx_mmio_write(h1, 0, entry_offset + PLX_A_LUT_HIGHER_RE_MAP_SUBARRAY_OFFSET)
    IN  plx_mmio_write(h2, 0, entry_offset + PLX_A_LUT_LOWER_RE_MAP_SUBARRAY_OFFSET)

RECURSIVE ClearEntries(_, _, _)
ClearEntries(h, offset, S) ==
    IF S = {} THEN h
    ELSE LET i == SetMin(S)
         IN  ClearEntries(ClearEntry(h, offset, i), offset, S \ {i})

\* plx_alm_reset, then the loop over the n segments of the manager.
plx_a_lut_clear(h, offset, n) ==
    [h |-> ClearEntries(h, offset, ClearAllRange(n)), entries |-> plx_alm_reset(n)]

\* A call of plx_a_lut_clear on the port's table. The windows callers held
\* are gone with the bookkeeping.
Clear ==
    /\ \E r \in {plx_a_lut_clear([regs |-> regs, log |-> <<>>, lock |-> alm_lock],
                                a_lut_array_base, segments_num)} :
           /\ entries' = r.entries
           /\ regs' = r.h.regs
           /\ log' = r.h.log
           /\ alm_lock' = r.h.lock
    /\ last' = [NoCall EXCEPT !.op = "clear"]
    /\ pre' = entries
    /\ hist' = [i \in DOMAIN hist |-> NoWindow]
    /\ rt' = NoRoundTrip
    /\ UNCHANGED <<segment_size, segments_num, a_lut_array_base, aper_len, dev, env,
                   idx, off, procs, script, watch>>

NextReset == Next \/ Clear

SpecReset == Init /\ [][NextReset]_vars

(* ------------------------------------------------------------------ *)
(* plx_alm_init, from the design document, section 4.1, and the attach  *)
(* of a port whose aperture has one of several lengths.                 *)
(* ------------------------------------------------------------------ *)

\* Mutant: the number of segments is rounded up.
plx_alm_init_RoundUp(capacity, aperture_len) ==
    IF aperture_len = 0 \/ capacity = 0
    THEN [ok |-> FALSE, segment_size |-> 0, segments_num |-> 0]
    ELSE LET k == SetMin({ j \in 0 .. aperture_len :
                             aperture_len \div Pow2(j) <= capacity })
         IN  [ok |-> TRUE, segment_size |-> Pow2(k),
              segments_num |-> DIV_ROUND_UP(aperture_len, Pow2(k))]

\* "init(capacity_hint, aperture_len) -> segment_size, segments_num": the
\* smallest power of two for which aperture_len / segment_size segments fit
\* the table; "fails if aperture_len is zero".
plx_alm_init(capacity, aperture_len) ==
    IF aperture_len = 0 \/ capacity = 0
    THEN [ok |-> FALSE, segment_size |-> 0, segments_num |-> 0]
    ELSE LET k == SetMin({ j \in 0 .. aperture_len :
                             aperture_len \div Pow2(j) <= capacity })
         IN  [ok |-> TRUE, segment_size |-> Pow2(k),
              segments_num |-> aperture_len \div Pow2(k)]

\* The aperture lengths of the attach: none, and those around a table of
\* NumSegs segments of 2^SegShift bytes.
AperLens == {0} \cup ((NumSegs * Pow2(SegShift) - 1) .. (NumSegs * Pow2(SegShift) + 2))

\* The state after plx_hw_init returned 0: plx_alm_init was given the length
\* of the aperture and a table of NumSegs entries.
InitAttach ==
    /\ aper_len \in AperLens
    /\ \E r \in {plx_alm_init(NumSegs, aper_len)} :
           /\ r.ok
           /\ segment_size = r.segment_size
           /\ segments_num = r.segments_num
    /\ a_lut_array_base = ArrayBase(2, 0, 0)
    /\ entries = plx_alm_reset(segments_num)
    /\ regs = [o \in RegOffsets(a_lut_array_base, segments_num) |-> 0]
    /\ alm_lock = 0
    /\ last = NoCall
    /\ log = <<>>
    /\ pre = entries
    /\ hist = [i \in 0 .. (segments_num - 1) |-> NoWindow]
    /\ rt = NoRoundTrip
    /\ idx = 0
    /\ off = 0
    /\ procs = [p \in Procs |-> Idle]
    /\ script = <<>>
    /\ watch = NoWatch
    /\ dev = NoDev
    /\ env = NoEnv

SpecInit == InitAttach /\ [][NextReset]_vars

(* ------------------------------------------------------------------ *)
(* The calls again, with one mapped range watched instead of the record *)
(* of the last call.                                                    *)
(* ------------------------------------------------------------------ *)

\* The watch after a map of (addr, size) returned r: any successful map may
\* be the one whose range is watched from then on.
WatchAfterMap(w, addr, size, r) ==
    IF r.ret # 0 THEN {w}
    ELSE IF ~w.on
    THEN {w, [NoWatch EXCEPT !.on = TRUE, !.addr = addr, !.size = size,
                             !.out = r.addr_out]}
    ELSE IF w.addr = addr /\ w.size = size
    THEN {[w EXCEPT !.again = TRUE, !.ok = (w.ok /\ r.addr_out = w.out)]}
    ELSE {[w EXCEPT !.between = TRUE]}

\* The watch after an unmap: it ends when callers hold no window on the
\* run of the watched range any more.
WatchAfterUnmap(w, hs) ==
    IF ~w.on THEN w
    ELSE IF hs[w.out \div segment_size].out = 0 THEN NoWatch
    ELSE [w EXCEPT !.between = TRUE]

MapWatched(addr, size) ==
    /\ alm_lock = 0
    /\ \E r \in {plx_add_a_lut_entry([regs |-> regs, log |-> <<>>, lock |-> alm_lock],
                                    entries, addr, size, segment_size)} :
           /\ MapEffect(r, addr, size)
           /\ watch' \in WatchAfterMap(watch, addr, size, r)
    /\ UNCHANGED <<segment_size, segments_num, a_lut_array_base, aper_len, dev, env,
                   last, log, pre, rt, idx, off, procs, script>>

UnmapWatched(addr) ==
    /\ DelOutOfRange(addr, segments_num, segment_size) \/ alm_lock = 0
    /\ \E r \in {plx_del_a_lut_entry([regs |-> regs, log |-> <<>>, lock |-> alm_lock],
                                    entries, addr, segments_num, segment_size)} :
           UnmapEffect(r, addr)
    /\ watch' = WatchAfterUnmap(watch, hist')
    /\ UNCHANGED <<segment_size, segments_num, a_lut_array_base, aper_len, dev, env,
                   last, log, pre, rt, idx, off, procs, script>>

NextWatch ==
    \/ \E addr \in 0 .. MaxAddr, size \in 1 .. MaxSize : MapWatched(addr, size)
    \/ \E addr \in 0 .. (segments_num * segment_size + 1) : UnmapWatched(addr)

SpecWatch == Init /\ [][NextWatch]_vars

(* ------------------------------------------------------------------ *)
(* The example of the design document, section 8: segment_size 0x1000,  *)
(* segments_num 4, an empty table, and the calls of the example among   *)
(* other calls.                                                         *)
(* ------------------------------------------------------------------ *)

\* map(0x1800, 0x900), map(0x1050, 0x10), then the two unmaps: of the
\* addresses the example names, and of the addresses the maps returned.
ExampleAsStated ==
    << [op |-> "map", addr |-> 6144, size |-> 2304],
       [op |-> "map", addr |-> 4176, size |-> 16],
       [op |-> "unmap", addr |-> 6144, size |-> 0],
       [op |-> "unmap", addr |-> 4176, size |-> 0] >>

ExampleAsRun ==
    << [op |-> "map", addr |-> 6144, size |-> 2304],
       [op |-> "map", addr |-> 4176, size |-> 16],
       [op |-> "unmap", addr |-> 2048, size |-> 0],
       [op |-> "unmap", addr |-> 8272, size |-> 0] >>

\* The calls made are not, or no longer, those of the example.
OffScript == << [op |-> "off", addr |-> 0, size |-> 0] >>

IsPrefix(p, q) == Len(p) <= Len(q) /\ p = SubSeq(q, 1, Len(p))

ScriptAfter(sc, call) ==
    IF sc # OffScript
       /\ (IsPrefix(Append(sc, call), ExampleAsStated)
            \/ IsPrefix(Append(sc, call), ExampleAsRun))
    THEN Append(sc, call)
    ELSE OffScript

\* The ranges mapped: the two of the example and the last segment.
ExampleMaps == { <<6144, 2304>>, <<4176, 16>>, <<12288, 4096>> }

\* The addresses unmapped: those of the example, those the maps return, and
\* the first address past the table.
ExampleUnmaps == {2048, 4176, 6144, 8272, 12288, 16384}

InitExample ==
    /\ segment_size = 4096
    /\ segments_num = 4
    /\ aper_len = 16384
    /\ a_lut_array_base = ArrayBase(2, 1, 0)
    /\ entries = plx_alm_reset(segments_num)
    /\ regs = [o \in RegOffsets(a_lut_array_base, segments_num) |-> 0]
    /\ alm_lock = 0
    /\ last = NoCall
    /\ log = <<>>
    /\ pre = entries
    /\ hist = [i \in 0 .. (segments_num - 1) |-> NoWindow]
    /\ rt = NoRoundTrip
    /\ idx = 0
    /\ off = 0
    /\ procs = [p \in Procs |-> Idle]
    /\ script = <<>>
    /\ watch = NoWatch
    /\ dev = NoDev
    /\ env = NoEnv

MapScripted(addr, size) ==
    /\ MapCall(addr, size)
    /\ script' = ScriptAfter(script, [op |-> "map", addr |-> addr, size |-> size])
    /\ UNCHANGED watch

UnmapScripted(addr) ==
    /\ UnmapCall(addr)
    /\ script' = ScriptAfter(script, [op |-> "unmap", addr |-> addr, size |-> 0])
    /\ UNCHANGED watch

NextExample ==
    \/ \E m \in ExampleMaps : MapScripted(m[1], m[2])
    \/ \E addr \in ExampleUnmaps : UnmapScripted(addr)

SpecExample == InitExample /\ [][NextExample]_vars

(* ------------------------------------------------------------------ *)
(* Concurrent callers of map and unmap on one port. A caller that has   *)
(* entered a call (pc "called") takes the lock when it is free; inside  *)
(* the lock every read or write of the bookkeeping and every register   *)
(* write is a step of its own. The steps of a call before spin_lock and *)
(* after spin_unlock touch nothing but its locals and are taken with    *)
(* the lock step and the unlock step.                                   *)
(* ------------------------------------------------------------------ *)

\* Mutant: spin_lock returns at once, whoever holds the lock.
SpinLockAcquires_Always(l) == TRUE

\* spin_lock(&xdev->alm_lock) returns when the lock is free, and then holds it.
SpinLockAcquires(l) == l = 0

InitConc == Init /\ a_lut_array_base = ArrayBase(2, 0, 0)

\* What the steps of a call leave alone; last and log record a call in the
\* step of its return only.
Frame ==
    /\ UNCHANGED <<segment_size, segments_num, a_lut_array_base, aper_len, dev, env,
                   pre, rt, idx, off, script, watch>>
    /\ last' = NoCall
    /\ log' = <<>>

\* The window as the call of p writes value v at offset o.
RegsAfterWrite(v, o) ==
    plx_mmio_write([regs |-> regs, log |-> <<>>, lock |-> alm_lock], v, o).regs

\* A caller enters plx_add_a_lut_entry or plx_del_a_lut_entry.
Call(p) ==
    /\ procs[p].pc = "idle"
    /\ procs' = [procs EXCEPT ![p].pc = "called"]
    /\ UNCHANGED <<entries, regs, alm_lock, hist>>
    /\ Frame

\* plx_add_a_lut_entry up to spin_lock.
MapLock(p, addr, size) ==
    /\ procs[p].pc = "called"
    /\ SpinLockAcquires(alm_lock)
    /\ \A i \in Segs :
           plx_alm_add_entry(entries, addr, size, segment_size).entries[i].counter
               <= MaxRef
    /\ alm_lock' = spin_lock([regs |-> regs, log |-> <<>>, lock |-> alm_lock]).lock
    /\ procs' = [procs EXCEPT ![p] = [Idle EXCEPT !.pc = "alm", !.op = "map",
                                               !.addr = addr, !.size = size,
                                               !.a = AndNot(addr, segment_size - 1)]]
    /\ UNCHANGED <<entries, regs, hist>>
    /\ Frame

\* plx_del_a_lut_entry up to spin_lock, the address in range.
UnmapLock(p, addr) ==
    /\ procs[p].pc = "called"
    /\ ~DelOutOfRange(addr, segments_num, segment_size)
    /\ SpinLockAcquires(alm_lock)
    /\ alm_lock' = spin_lock([regs |-> regs, log |-> <<>>, lock |-> alm_lock]).lock
    /\ procs' = [procs EXCEPT ![p] = [Idle EXCEPT !.pc = "alm", !.op = "unmap",
                                               !.addr = addr]]
    /\ UNCHANGED <<entries, regs, hist>>
    /\ Frame

\* plx_del_a_lut_entry of an address out of range: it returns without the lock.
UnmapReject(p, addr) ==
    /\ procs[p].pc = "called"
    /\ DelOutOfRange(addr, segments_num, segment_size)
    /\ procs' = [procs EXCEPT ![p] = Idle]
    /\ UNCHANGED <<entries, regs, alm_lock, hist>>
    /\ Frame

\* plx_alm_add_entry / plx_alm_del_entry read the bookkeeping and decide.
AlmDecide(p) ==
    /\ procs[p].pc = "alm"
    /\ procs' = [procs EXCEPT
                   ![p].pc = "commit",
                   ![p].r = IF procs[p].op = "map"
                            THEN plx_alm_add_entry(entries, procs[p].addr,
                                                   procs[p].size, segment_size)
                            ELSE LET d == plx_alm_del_entry(
                                              entries,
                                              DelSegmentId(procs[p].addr, segment_size))
                                 IN  [err |-> 0, segment_id |-> d.start_segment,
                                      segments_num |-> d.segments_num,
                                      entries |-> d.entries]]
    /\ UNCHANGED <<entries, regs, alm_lock, hist>>
    /\ Frame

\* ... and write it; the call goes on to its loop or to its exit. The loop
\* of a map tests i < segment_id + segments_num before its first turn: a run
\* of no segment goes straight to mb().
AlmCommit(p) ==
    /\ procs[p].pc = "commit"
    /\ entries' = procs[p].r.entries
    /\ procs' = [procs EXCEPT
                   ![p].i = procs[p].r.segment_id,
                   ![p].pc =
                       IF procs[p].op = "map"
                       THEN IF MapFailed(procs[p].r.err) THEN "failed"
                            ELSE IF MapPrograms(procs[p].r.err)
                            THEN IF procs[p].r.segment_id
                                        < procs[p].r.segment_id
                                              + procs[p].r.segments_num
                                 THEN "hi" ELSE "drain"
                            ELSE "unlock"
                       ELSE IF DelClearRange(procs[p].r.segment_id,
                                             procs[p].r.segments_num) # {}
                            THEN "clr" ELSE "unlock"]
    /\ UNCHANGED <<regs, alm_lock, hist>>
    /\ Frame

\* The three register writes of one iteration of the programming loop.
WriteHigher(p) ==
    /\ procs[p].pc = "hi"
    /\ regs' = RegsAfterWrite(Hi32(procs[p].a), HigherOff(procs[p].i))
    /\ procs' = [procs EXCEPT ![p].pc = "lo"]
    /\ UNCHANGED <<entries, alm_lock, hist>>
    /\ Frame

WriteLower(p) ==
    /\ procs[p].pc = "lo"
    /\ regs' = RegsAfterWrite(Lo32(procs[p].a), LowerOff(procs[p].i))
    /\ procs' = [procs EXCEPT ![p].pc = "perm"]
    /\ UNCHANGED <<entries, alm_lock, hist>>
    /\ Frame

WritePermission(p) ==
    /\ procs[p].pc = "perm"
    /\ regs' = RegsAfterWrite(PermRW, PermOff(procs[p].i))
    /\ procs' = [procs EXCEPT
                   ![p].i = @ + 1,
                   ![p].a = NextMasked(@, segment_size),
                   ![p].pc = IF procs[p].i + 1
                                  < procs[p].r.segment_id + procs[p].r.segments_num
                             THEN "hi" ELSE "drain"]
    /\ UNCHANGED <<entries, alm_lock, hist>>
    /\ Frame

\* mb() and the read of the last permission register.
Drain(p) ==
    /\ procs[p].pc = "drain"
    /\ procs' = [procs EXCEPT ![p].pc = "unlock"]
    /\ UNCHANGED <<entries, regs, alm_lock, hist>>
    /\ Frame

\* One iteration of the clearing loop of unmap.
ClearPermission(p) ==
    /\ procs[p].pc = "clr"
    /\ regs' = RegsAfterWrite(0, PermOff(procs[p].i))
    /\ procs' = [procs EXCEPT
                   ![p].i = @ + 1,
                   ![p].pc = IF (procs[p].i + 1)
                                  \in DelClearRange(procs[p].r.segment_id,
                                                    procs[p].r.segments_num)
                             THEN "clr" ELSE "unlock"]
    /\ UNCHANGED <<entries, alm_lock, hist>>
    /\ Frame

\* What the call of p returns to its caller.
Returned(p) ==
    [ret      |-> IF procs[p].op = "map" /\ MapFailed(procs[p].r.err)
                  THEN 0 - ENOMEM ELSE 0,
     addr_out |-> IF procs[p].op = "map" /\ ~MapFailed(procs[p].r.err)
                  THEN TranslatedAddr(procs[p].r.segment_id, procs[p].addr,
                                      segment_size)
                  ELSE NoAddr,
     h        |-> [log |-> <<>>]]

\* spin_unlock and the return.
Unlock(p) ==
    /\ procs[p].pc = "unlock"
    /\ alm_lock' = spin_unlock([regs |-> regs, log |-> <<>>, lock |-> alm_lock]).lock
    /\ hist' = IF procs[p].op = "map"
               THEN HistAfterMap(hist, Returned(p), procs[p].addr, procs[p].size)
               ELSE HistAfterUnmap(hist, procs[p].addr)
    /\ procs' = [procs EXCEPT ![p] = Idle]
    /\ UNCHANGED <<entries, regs>>
    /\ Frame

\* The exit of a map that found no space: spin_unlock at line 614 and the
\* return of -ENOMEM.
FailedExit(p) ==
    /\ procs[p].pc = "failed"
    /\ alm_lock' = MapFailedExit([regs |-> regs, log |-> <<>>, lock |-> alm_lock]).lock
    /\ hist' = HistAfterMap(hist, Returned(p), procs[p].addr, procs[p].size)
    /\ procs' = [procs EXCEPT ![p] = Idle]
    /\ UNCHANGED <<entries, regs>>
    /\ Frame

NextConc ==
    \E p \in Procs :
        \/ Call(p)
        \/ \E addr \in 0 .. MaxAddr, size \in 1 .. MaxSize : MapLock(p, addr, size)
        \/ \E addr \in 0 .. (segments_num * segment_size + 1) :
               UnmapLock(p, addr) \/ UnmapReject(p, addr)
        \/ AlmDecide(p) \/ AlmCommit(p)
        \/ WriteHigher(p) \/ WriteLower(p) \/ WritePermission(p) \/ Drain(p)
        \/ ClearPermission(p)
        \/ Unlock(p)
        \/ FailedExit(p)

SpecConc == InitConc /\ [][NextConc]_vars

(* ------------------------------------------------------------------ *)
(* Attach and detach of the port: plx_hw_init with plx_check_eeprom,   *)
(* plx_program_rid_lut, plx_program_rid_lut_dma and _plx_a_lut_enable, *)
(* plx_hw_deinit, and the public plx_a_lut_disable and plx_a_lut_clear, *)
(* which take no lock. Every register access, lock operation and       *)
(* assignment to a field of xdev that other callers read is a step of  *)
(* its own, and the steps of two callers interleave. The registers     *)
(* outlive the driver: what one attach programmed is still in the chip *)
(* at the next. procs[p].log holds the events of the call of p so far; *)
(* last and log hold the call that returned in the latest step.        *)
(* ------------------------------------------------------------------ *)

\* The table control register and its enable value (plx_hw.h; "enable/
\* disable bits for the table as a whole", section 6).
PLX_A_LUT_CONTROL == 3220

PLX_A_LUT_ENABLE == 1

\* The EEPROM status register and the register of the EEPROM's CRC.
PLX_EEP_STATUS_CONTROL == 608

PLX_EEP_CRC == 616

\* The routing-ID tables of the two NT ports, virtual and link side, for the
\* root port and (_1) for the DMA engine (plx_hw.h).
PLX_NT0_RID_LUT_VIRTUAL_OFFSET == 257460

PLX_NT0_RID_LUT_VIRTUAL_OFFSET_1 == 257464

PLX_NT0_RID_LUT_LINK_OFFSET == 261556

PLX_NT0_RID_LUT_LINK_OFFSET_1 == 261560

PLX_NT1_RID_LUT_VIRTUAL_OFFSET == 249268

PLX_NT1_RID_LUT_VIRTUAL_OFFSET_1 == 249272

PLX_NT1_RID_LUT_LINK_OFFSET == 253364

PLX_NT1_RID_LUT_LINK_OFFSET_1 == 253368

PLX_RID_LUT_ENABLE == 1

PLX_RID_LUT_ENABLE_1 == 1

VCA_DMA_DEVICE == 0

\* What plx_check_eeprom returns when the EEPROM is absent or invalid.
EIO == 5

\* What plx_program_rid_lut returns when there is no root port.
ENXIO == 6

\* What plx_alm_init returns when it fails.
EINVAL == 22

\* _plx_get_reg_base: 0x3E000 - port_id * 0x2000 + link_side * 0x1000
plx_get_reg_base(link_side, port_id) == 253952 - port_id * 8192 + link_side * 4096

ControlOff(reg_base) == reg_base + PLX_A_LUT_CONTROL

\* The side whose translation this build programs: VCA_ALUT_CARD_SIDE or
\* VCA_ALUT_HOST_SIDE.
AlutSides == {"card", "host"}

\* xdev->a_lut_peer as plx_hw_init sets it.
ALutPeer(side, link_side) ==
    IF side = "card" THEN link_side = 0 ELSE link_side # 0

\* plx_rid_lut and plx_rid_lut_dma: the fields do not overlap.
plx_rid_lut(root_port_bus, root_port_dev, root_complex_bus, root_complex_dev) ==
    root_port_bus * Pow2(24) + (root_port_dev % 16) * Pow2(19)
        + root_complex_bus * Pow2(8) + (root_complex_dev % 16) * Pow2(3)
        + PLX_RID_LUT_ENABLE

plx_rid_lut_dma(dma_bus, dma_dev) ==
    dma_bus * Pow2(8) + (dma_dev % 16) * Pow2(3) + PLX_RID_LUT_ENABLE_1

\* Where the port sits: the root port above it (bus and slot), the bus of
\* the root complex and the bus of the DMA engine.
Topology == [root_port_bus |-> 0, root_port_slot |-> 3, root_complex_bus |-> 0,
             dma_bus |-> 0]

\* The register plx_program_rid_lut and plx_program_rid_lut_dma write.
RidOff(link_side, port_id) ==
    IF port_id = 0
    THEN (IF link_side # 0 THEN PLX_NT0_RID_LUT_LINK_OFFSET
          ELSE PLX_NT0_RID_LUT_VIRTUAL_OFFSET)
    ELSE (IF link_side # 0 THEN PLX_NT1_RID_LUT_LINK_OFFSET
          ELSE PLX_NT1_RID_LUT_VIRTUAL_OFFSET)

RidDmaOff(link_side, port_id) ==
    IF port_id = 0
    THEN (IF link_side # 0 THEN PLX_NT0_RID_LUT_LINK_OFFSET_1
          ELSE PLX_NT0_RID_LUT_VIRTUAL_OFFSET_1)
    ELSE (IF link_side # 0 THEN PLX_NT1_RID_LUT_LINK_OFFSET_1
          ELSE PLX_NT1_RID_LUT_VIRTUAL_OFFSET_1)

\* plx_program_rid_lut: -ENXIO without a root port, else one write.
plx_program_rid_lut(h, link_side, port_id, has_root_port) ==
    IF ~has_root_port THEN [h |-> h, ret |-> 0 - ENXIO]
    ELSE [h |-> plx_mmio_write(h, plx_rid_lut(Topology.root_port_bus,
                                              Topology.root_port_slot,
                                              Topology.root_complex_bus, 0),
                               RidOff(link_side, port_id)),
          ret |-> 0]

plx_program_rid_lut_dma(h, link_side, port_id) ==
    [h |-> plx_mmio_write(h, plx_rid_lut_dma(Topology.dma_bus, VCA_DMA_DEVICE),
                          RidDmaOff(link_side, port_id)),
     ret |-> 0]

\* The fields of the EEPROM status register plx_check_eeprom looks at: the
\* presence field and the CRC error bit.
EepStatus ==
    { [prsnt |-> s, crc_err |-> c] :
          s \in {"not_present", "signature_ok", "signature_fail", "unknown"},
          c \in BOOLEAN }

\* plx_check_eeprom with the status register reading val.
plx_check_eeprom(h, val) ==
    LET h1 == plx_mmio_read(h, PLX_EEP_STATUS_CONTROL)
    IN  IF val.prsnt # "signature_ok" THEN [h |-> h1, ret |-> 0 - EIO]
        ELSE [h |-> plx_mmio_read(h1, PLX_EEP_CRC),
              ret |-> IF val.crc_err THEN 0 - EIO ELSE 0]

plx_a_lut_disable(h, reg_base) == plx_mmio_write(h, 0, ControlOff(reg_base))

\* Mutant: the table is enabled whichever side it serves.
EnableWrite_Always(h, a_lut_peer, reg_base) ==
    plx_mmio_write(h, PLX_A_LUT_ENABLE, ControlOff(reg_base))

\* if (xdev->a_lut_peer) plx_mmio_write(PLX_A_LUT_ENABLE, reg_base + PLX_A_LUT_CONTROL)
EnableWrite(h, a_lut_peer, reg_base) ==
    IF a_lut_peer THEN plx_mmio_write(h, PLX_A_LUT_ENABLE, ControlOff(reg_base))
    ELSE h

\* The capacity plx_hw_init asks of plx_alm_init through num_ntbs: the
\* model's table has NumSegs entries for one NTB and for two.
TableEntries(num_ntbs) == NumSegs

\* plx_alm_release ("tears down bookkeeping at detach", section 4.1): the
\* manager is not to be used until the next plx_alm_init; its fields are
\* left as they are.
plx_alm_release(e) == e

\* The aperture of the port: none, or a table of NumSegs segments.
PortApertures == {0, NumSegs * Pow2(SegShift)}

\* The registers of a port that the calls write.
PortRegs(num_ntbs, link_side, port_id) ==
    RegOffsets(ArrayBase(num_ntbs, link_side, port_id), NumSegs)
        \cup {ControlOff(plx_get_reg_base(link_side, port_id)),
              RidOff(link_side, port_id), RidDmaOff(link_side, port_id)}

\* xdev as kzalloc leaves it.
ZeroedXdev(d) == [d EXCEPT !.attached = FALSE, !.reg_base = 0, !.a_lut = FALSE,
                           !.a_lut_peer = FALSE]

\* A port before its first attach: the chip in its power-on state, xdev
\* zeroed. link_side and port_id are what the chip's PLX_PORT_ID reads,
\* num_ntbs what the PCI device id stands for, side the build.
InitPort ==
    /\ aper_len \in PortApertures
    /\ \E link_side \in {0, 1}, port_id \in {0, 1}, num_ntbs \in {1, 2},
          side \in AlutSides :
           /\ dev = [attached |-> FALSE, link_side |-> link_side,
                     port_id |-> port_id, num_ntbs |-> num_ntbs, side |-> side,
                     a_lut |-> FALSE, a_lut_peer |-> FALSE, reg_base |-> 0]
           /\ regs = [o \in PortRegs(num_ntbs, link_side, port_id) |-> 0]
    /\ segment_size = 0
    /\ segments_num = 0
    /\ a_lut_array_base = 0
    /\ entries = plx_alm_reset(0)
    /\ alm_lock = 0
    /\ last = NoCall
    /\ log = <<>>
    /\ pre = entries
    /\ hist = [i \in {} |-> NoWindow]
    /\ rt = NoRoundTrip
    /\ idx = 0
    /\ off = 0
    /\ procs = [p \in Procs |-> Idle]
    /\ script = <<>>
    /\ watch = NoWatch
    /\ env = NoEnv

Quiet == \A p \in Procs : procs[p].pc = "idle"

\* plx_hw_init has laid out the registers of xdev.
Configured == dev.reg_base # 0 /\ a_lut_array_base # 0

\* The references a table can come to hold: those it holds, or a call under
\* way is about to write, and one for every map under way.
RefsInSight ==
    LET held == { entries[i].counter : i \in DOMAIN entries }
                    \cup UNION { { procs[p].r.entries[i].counter :
                                      i \in DOMAIN procs[p].r.entries } : p \in Procs }
                    \cup {0}
    IN  (CHOOSE m \in held : \A k \in held : k <= m)
            + Cardinality({ p \in Procs : procs[p].op = "map" })

FramePort == UNCHANGED <<aper_len, env, pre, rt, idx, off, script, watch>>

Manager == <<segment_size, segments_num, entries, hist>>

\* The step is not the return of a call that last and log record.
Going == last' = NoCall /\ log' = <<>>

\* The window, the events of the call of p and the lock, as a step finds them.
H(p) == [regs |-> regs, log |-> procs[p].log, lock |-> alm_lock]

\* The step of p ends its call, which returns ret after the events l.
Return(p, ret, l) ==
    /\ procs' = [procs EXCEPT ![p] = Idle]
    /\ last' = [NoCall EXCEPT !.op = procs[p].op, !.ret = ret,
                              !.segments_num = segments_num]
    /\ log' = l

\* A caller enters plx_add_a_lut_entry or plx_del_a_lut_entry of a port in
\* service, or the public plx_a_lut_clear or plx_a_lut_disable.
Enter(p, c) ==
    /\ procs[p].pc = "idle"
    /\ c.op \in {"map", "unmap"} => dev.attached
    /\ c.op \in {"clear", "disable"} => Configured
    /\ c.op = "map" => RefsInSight < MaxRef
    /\ procs' = [procs EXCEPT ![p] =
           [Idle EXCEPT !.pc = CASE c.op = "clear" -> "reset"
                                 [] c.op = "disable" -> "disable"
                                 [] OTHER -> "spin",
                        !.op = c.op, !.addr = c.addr, !.size = c.size,
                        !.a = IF c.op = "map"
                              THEN AndNot(c.addr, segment_size - 1) ELSE 0]]
    /\ Going
    /\ UNCHANGED <<Manager, a_lut_array_base, dev, regs, alm_lock>>
    /\ FramePort

\* plx_del_a_lut_entry of an address out of range returns before spin_lock.
Reject(p) ==
    /\ procs[p].pc = "spin"
    /\ procs[p].op = "unmap"
    /\ DelOutOfRange(procs[p].addr, segments_num, segment_size)
    /\ procs' = [procs EXCEPT ![p] = Idle]
    /\ Going
    /\ UNCHANGED <<Manager, a_lut_array_base, dev, regs, alm_lock>>
    /\ FramePort

\* spin_lock(&xdev->alm_lock) of lines 300, 519, 553 and 642.
Acquire(p) ==
    /\ procs[p].pc = "spin"
    /\ procs[p].op = "unmap" =>
           ~DelOutOfRange(procs[p].addr, segments_num, segment_size)
    /\ SpinLockAcquires(alm_lock)
    /\ \E h \in {spin_lock(H(p))} :
           /\ alm_lock' = h.lock
           /\ procs' = [procs EXCEPT
                  ![p].log = h.log,
                  ![p].pc = CASE procs[p].op = "attach" -> "disable"
                              [] procs[p].op = "detach" -> "release"
                              [] OTHER -> "alm"]
    /\ Going
    /\ UNCHANGED <<Manager, a_lut_array_base, dev, regs>>
    /\ FramePort

\* plx_hw_init is called on a port out of service that no caller is using:
\* spin_lock_init(&xdev->alm_lock).
AttachCall(p) ==
    /\ Quiet
    /\ ~dev.attached
    /\ alm_lock' = 0
    /\ procs' = [procs EXCEPT ![p] = [Idle EXCEPT !.pc = "cfg", !.op = "attach"]]
    /\ Going
    /\ UNCHANGED <<Manager, a_lut_array_base, dev, regs>>
    /\ FramePort

\* pci_read_config_dword(pdev, PLX_PORT_ID, &val) returns rc: the call
\* returns it (line 396), or link_side, port_id, reg_base and reg_base_peer
\* are set from val and a_lut and a_lut_peer to false (lines 398-404).
AttachConfig(p, rc) ==
    /\ procs[p].pc = "cfg"
    /\ IF rc # 0
       THEN /\ Return(p, rc, procs[p].log)
            /\ UNCHANGED dev
       ELSE /\ dev' = [dev EXCEPT
                          !.reg_base = plx_get_reg_base(dev.link_side, dev.port_id),
                          !.a_lut = FALSE, !.a_lut_peer = FALSE]
            /\ procs' = [procs EXCEPT ![p].pc = "side"]
            /\ Going
    /\ UNCHANGED <<Manager, a_lut_array_base, regs, alm_lock>>
    /\ FramePort

\* Lines 405-416: the side of the build decides which of a_lut and
\* a_lut_peer is set. The EEPROM is checked on link side 0 only (line 419).
AttachSide(p) ==
    /\ procs[p].pc = "side"
    /\ dev' = [dev EXCEPT !.a_lut_peer = ALutPeer(dev.side, dev.link_side),
                          !.a_lut = ~ALutPeer(dev.side, dev.link_side)]
    /\ procs' = [procs EXCEPT ![p].pc = IF dev.link_side = 0 THEN "eep"
                                        ELSE "layout"]
    /\ Going
    /\ UNCHANGED <<Manager, a_lut_array_base, regs, alm_lock>>
    /\ FramePort

\* plx_check_eeprom on link side 0, the status register reading val.
AttachEeprom(p, val) ==
    /\ procs[p].pc = "eep"
    /\ \E r \in {plx_check_eeprom(H(p), val)} :
           IF r.ret # 0
           THEN Return(p, r.ret, r.h.log)
           ELSE /\ procs' = [procs EXCEPT ![p].pc = "layout", ![p].log = r.h.log]
                /\ Going
    /\ UNCHANGED <<Manager, a_lut_array_base, dev, regs, alm_lock>>
    /\ FramePort

\* Lines 426-468: the interrupt base, num_ntbs from the device id and
\* a_lut_array_base from num_ntbs, link_side and port_id.
AttachLayout(p) ==
    /\ procs[p].pc = "layout"
    /\ a_lut_array_base' = ArrayBase(dev.num_ntbs, dev.link_side, dev.port_id)
    /\ procs' = [procs EXCEPT ![p].pc = "rid"]
    /\ Going
    /\ UNCHANGED <<Manager, dev, regs, alm_lock>>
    /\ FramePort

\* plx_program_rid_lut (lines 472-476).
AttachRid(p, has_root_port) ==
    /\ procs[p].pc = "rid"
    /\ \E r \in {plx_program_rid_lut(H(p), dev.link_side, dev.port_id,
                                    has_root_port)} :
           /\ regs' = r.h.regs
           /\ IF r.ret # 0
              THEN Return(p, r.ret, r.h.log)
              ELSE /\ procs' = [procs EXCEPT ![p].pc = "rid_dma",
                                             ![p].log = r.h.log]
                   /\ Going
    /\ UNCHANGED <<Manager, a_lut_array_base, dev, alm_lock>>
    /\ FramePort

\* plx_program_rid_lut_dma (lines 477-481); _plx_a_lut_enable is next.
AttachRidDma(p) ==
    /\ procs[p].pc = "rid_dma"
    /\ \E r \in {plx_program_rid_lut_dma(H(p), dev.link_side, dev.port_id)} :
           /\ regs' = r.h.regs
           /\ procs' = [procs EXCEPT ![p].pc = "spin", ![p].log = r.h.log]
    /\ Going
    /\ UNCHANGED <<Manager, a_lut_array_base, dev, alm_lock>>
    /\ FramePort

\* plx_a_lut_disable: inside _plx_a_lut_enable (line 301), or called on its
\* own, and then without the lock.
EnDisable(p) ==
    /\ procs[p].pc = "disable"
    /\ \E h \in {plx_a_lut_disable(H(p), dev.reg_base)} :
           /\ regs' = h.regs
           /\ IF procs[p].op = "disable"
              THEN Return(p, 0, h.log)
              ELSE /\ procs' = [procs EXCEPT ![p].pc = "reset", ![p].log = h.log]
                   /\ Going
    /\ UNCHANGED <<Manager, a_lut_array_base, dev, alm_lock>>
    /\ FramePort

\* Where a call goes when plx_a_lut_clear is over.
AfterClear(p, l) ==
    IF procs[p].op = "clear"
    THEN Return(p, 0, l)
    ELSE /\ procs' = [procs EXCEPT ![p].pc = "enable", ![p].log = l]
         /\ Going

\* plx_a_lut_clear: plx_alm_reset (line 273) and the head of the loop;
\* inside _plx_a_lut_enable (line 302), or called on its own, and then
\* without the lock.
EnReset(p) ==
    /\ procs[p].pc = "reset"
    /\ entries' = plx_alm_reset(segments_num)
    /\ hist' = [i \in DOMAIN hist |-> NoWindow]
    /\ IF ClearAllRange(segments_num) # {}
       THEN /\ procs' = [procs EXCEPT ![p].i = 0, ![p].pc = "zero_perm"]
            /\ Going
       ELSE AfterClear(p, procs[p].log)
    /\ UNCHANGED <<segment_size, segments_num, a_lut_array_base, dev, regs, alm_lock>>
    /\ FramePort

\* The three writes of the loop's body, each a step (lines 279-284).
EnZeroPermission(p) ==
    /\ procs[p].pc = "zero_perm"
    /\ \E h \in {plx_mmio_write(H(p), 0, plx_get_a_lut_entry_offset(procs[p].i)
                                          + a_lut_array_base
                                          + PLX_A_LUT_PERMISSION_SUBARRAY_OFFSET)} :
           /\ regs' = h.regs
           /\ procs' = [procs EXCEPT ![p].pc = "zero_hi", ![p].log = h.log]
    /\ Going
    /\ UNCHANGED <<Manager, a_lut_array_base, dev, alm_lock>>
    /\ FramePort

EnZeroHigher(p) ==
    /\ procs[p].pc = "zero_hi"
    /\ \E h \in {plx_mmio_write(H(p), 0, plx_get_a_lut_entry_offset(procs[p].i)
                                          + a_lut_array_base
                                          + PLX_A_LUT_HIGHER_RE_MAP_SUBARRAY_OFFSET)} :
           /\ regs' = h.regs
           /\ procs' = [procs EXCEPT ![p].pc = "zero_lo", ![p].log = h.log]
    /\ Going
    /\ UNCHANGED <<Manager, a_lut_array_base, dev, alm_lock>>
    /\ FramePort

EnZeroLower(p) ==
    /\ procs[p].pc = "zero_lo"
    /\ \E h \in {plx_mmio_write(H(p), 0, plx_get_a_lut_entry_offset(procs[p].i)
                                          + a_lut_array_base
                                          + PLX_A_LUT_LOWER_RE_MAP_SUBARRAY_OFFSET)} :
           /\ regs' = h.regs
           /\ IF (procs[p].i + 1) \in ClearAllRange(segments_num)
              THEN /\ procs' = [procs EXCEPT ![p].i = @ + 1, ![p].pc = "zero_perm",
                                             ![p].log = h.log]
                   /\ Going
              ELSE AfterClear(p, h.log)
    /\ UNCHANGED <<Manager, a_lut_array_base, dev, alm_lock>>
    /\ FramePort

\* The enable write of _plx_a_lut_enable (lines 304-306).
EnEnable(p) ==
    /\ procs[p].pc = "enable"
    /\ \E h \in {EnableWrite(H(p), dev.a_lut_peer, dev.reg_base)} :
           /\ regs' = h.regs
           /\ procs' = [procs EXCEPT ![p].pc = "exit", ![p].log = h.log]
    /\ Going
    /\ UNCHANGED <<Manager, a_lut_array_base, dev, alm_lock>>
    /\ FramePort

\* spin_unlock of line 308, and of line 521, where plx_hw_deinit returns.
EnUnlock(p) ==
    /\ procs[p].pc = "exit"
    /\ \E h \in {spin_unlock(H(p))} :
           /\ alm_lock' = h.lock
           /\ IF procs[p].op = "detach"
              THEN Return(p, 0, h.log)
              ELSE /\ procs' = [procs EXCEPT ![p].pc = "alm_spin", ![p].log = h.log]
                   /\ Going
    /\ UNCHANGED <<Manager, a_lut_array_base, dev, regs>>
    /\ FramePort

\* spin_lock of line 494.
AttachAlmLock(p) ==
    /\ procs[p].pc = "alm_spin"
    /\ SpinLockAcquires(alm_lock)
    /\ \E h \in {spin_lock(H(p))} :
           /\ alm_lock' = h.lock
           /\ procs' = [procs EXCEPT ![p].pc = "alm_init", ![p].log = h.log]
    /\ Going
    /\ UNCHANGED <<Manager, a_lut_array_base, dev, regs>>
    /\ FramePort

\* rc = plx_alm_init(&xdev->a_lut_manager, xdev->pdev, xdev->num_ntbs,
\* xdev->aper.len). A failed init leaves the manager as it was.
AttachAlmInit(p) ==
    /\ procs[p].pc = "alm_init"
    /\ \E r \in {plx_alm_init(TableEntries(dev.num_ntbs), aper_len)} :
           /\ segment_size' = IF r.ok THEN r.segment_size ELSE segment_size
           /\ segments_num' = IF r.ok THEN r.segments_num ELSE segments_num
           /\ entries' = IF r.ok THEN plx_alm_reset(r.segments_num) ELSE entries
           /\ procs' = [procs EXCEPT ![p].pc = "alm_exit",
                                     ![p].ret = IF r.ok THEN 0 ELSE 0 - EINVAL]
    /\ Going
    /\ UNCHANGED <<hist, a_lut_array_base, dev, regs, alm_lock>>
    /\ FramePort

\* spin_unlock of line 504 and return rc. A port whose attach returned 0 is
\* in service.
AttachAlmUnlock(p) ==
    /\ procs[p].pc = "alm_exit"
    /\ \E h \in {spin_unlock(H(p))} :
           /\ alm_lock' = h.lock
           /\ Return(p, procs[p].ret, h.log)
    /\ dev' = [dev EXCEPT !.attached = (procs[p].ret = 0)]
    /\ UNCHANGED <<Manager, a_lut_array_base, regs>>
    /\ FramePort

\* plx_hw_deinit is called on a port in service that no caller is using; the
\* port is out of service from then on.
DetachCall(p) ==
    /\ Quiet
    /\ dev.attached
    /\ dev' = [dev EXCEPT !.attached = FALSE]
    /\ procs' = [procs EXCEPT ![p] = [Idle EXCEPT !.pc = "spin", !.op = "detach"]]
    /\ Going
    /\ UNCHANGED <<Manager, a_lut_array_base, regs, alm_lock>>
    /\ FramePort

\* plx_alm_release under the lock (line 520). The windows callers held are
\* void.
DetachRelease(p) ==
    /\ procs[p].pc = "release"
    /\ entries' = plx_alm_release(entries)
    /\ hist' = [i \in DOMAIN hist |-> NoWindow]
    /\ procs' = [procs EXCEPT ![p].pc = "exit"]
    /\ Going
    /\ UNCHANGED <<segment_size, segments_num, a_lut_array_base, dev, regs, alm_lock>>
    /\ FramePort

\* The device is removed and probed again: xdev is freed after
\* plx_hw_deinit and a zeroed one allocated for the next plx_hw_init. The
\* chip keeps its registers.
Reprobe ==
    /\ Quiet
    /\ ~dev.attached
    /\ dev' = ZeroedXdev(dev)
    /\ segment_size' = 0
    /\ segments_num' = 0
    /\ a_lut_array_base' = 0
    /\ entries' = plx_alm_reset(0)
    /\ hist' = [i \in DOMAIN hist |-> NoWindow]
    /\ alm_lock' = 0
    /\ procs' = procs
    /\ Going
    /\ UNCHANGED regs
    /\ FramePort

\* The steps of map and unmap inside the lock.
Inside(p) ==
    \/ AlmDecide(p) \/ AlmCommit(p)
    \/ WriteHigher(p) \/ WriteLower(p) \/ WritePermission(p) \/ Drain(p)
    \/ ClearPermission(p)
    \/ Unlock(p)
    \/ FailedExit(p)

\* The steps of plx_hw_init, plx_hw_deinit, plx_a_lut_clear and
\* plx_a_lut_disable that take no input and do not wait for the lock.
TableStep(p) ==
    \/ AttachSide(p) \/ AttachLayout(p) \/ AttachRidDma(p)
    \/ EnDisable(p) \/ EnReset(p)
    \/ EnZeroPermission(p) \/ EnZeroHigher(p) \/ EnZeroLower(p)
    \/ EnEnable(p) \/ EnUnlock(p)
    \/ AttachAlmInit(p) \/ AttachAlmUnlock(p)
    \/ DetachRelease(p)

\* The calls of a port in use: maps of one segment, of two from inside a
\* segment and of the whole aperture, unmaps inside and past the aperture,
\* and the two public calls that take no lock.
PortCalls ==
    { [op |-> "map", addr |-> 0, size |-> 1],
      [op |-> "map", addr |-> 1, size |-> Pow2(SegShift)],
      [op |-> "map", addr |-> 0, size |-> NumSegs * Pow2(SegShift)],
      [op |-> "unmap", addr |-> 0, size |-> 0],
      [op |-> "unmap", addr |-> NumSegs * Pow2(SegShift), size |-> 0],
      [op |-> "clear", addr |-> 0, size |-> 0],
      [op |-> "disable", addr |-> 0, size |-> 0] }

\* What the configuration read returns, and the states of the EEPROM.
ConfigReads == {0, 0 - EIO}

NextAttach ==
    \/ Reprobe
    \/ AttachCall("p")
    \/ DetachCall("p")
    \/ \E p \in Procs :
           \/ \E c \in PortCalls : Enter(p, c)
           \/ Reject(p)
           \/ Acquire(p)
           \/ Inside(p)
           \/ \E rc \in ConfigReads : AttachConfig(p, rc)
           \/ \E val \in EepStatus : AttachEeprom(p, val)
           \/ \E has_root_port \in BOOLEAN : AttachRid(p, has_root_port)
           \/ AttachAlmLock(p)
           \/ TableStep(p)

SpecAttach == InitPort /\ [][NextAttach]_vars

(* ------------------------------------------------------------------ *)
(* Every operation that takes the A-LUT lock, to its return, on one    *)
(* port, with the fairness of the spin lock.                           *)
(* ------------------------------------------------------------------ *)

\* The calls made: a map of one segment, a map of the whole aperture (no
\* space when anything is held), the same unmapped, an unmap past the
\* aperture, and the two public calls that take no lock.
LiveCalls ==
    { [op |-> "map", addr |-> 0, size |-> 1],
      [op |-> "map", addr |-> 0, size |-> NumSegs * Pow2(SegShift)],
      [op |-> "unmap", addr |-> 0, size |-> 0],
      [op |-> "unmap", addr |-> NumSegs * Pow2(SegShift), size |-> 0],
      [op |-> "clear", addr |-> 0, size |-> 0],
      [op |-> "disable", addr |-> 0, size |-> 0] }

InitLive ==
    /\ InitPort
    /\ dev.link_side = 0
    /\ dev.port_id = 0
    /\ dev.num_ntbs = 2
    /\ dev.side = "card"
    /\ aper_len # 0

NextLive ==
    \/ AttachCall("p")
    \/ DetachCall("p")
    \/ \E p \in Procs :
           \/ \E c \in LiveCalls : Enter(p, c)
           \/ Reject(p)
           \/ Acquire(p)
           \/ Inside(p)
           \/ AttachConfig(p, 0)
           \/ \E val \in EepStatus : AttachEeprom(p, val)
           \/ AttachRid(p, TRUE)
           \/ AttachAlmLock(p)
           \/ TableStep(p)

\* A caller that holds the lock runs on (a spinning lock holder is not
\* preempted); a caller outside the lock goes on too; and a caller that
\* spins on the lock gets it after finitely many releases (the kernel's
\* spinlocks serve their waiters in order).
Fairness ==
    \A p \in Procs :
        /\ WF_vars(Inside(p))
        /\ WF_vars(TableStep(p))
        /\ WF_vars(Reject(p))
        /\ WF_vars(AttachConfig(p, 0))
        /\ WF_vars(\E val \in EepStatus : AttachEeprom(p, val))
        /\ WF_vars(AttachRid(p, TRUE))
        /\ SF_vars(Acquire(p))
        /\ SF_vars(AttachAlmLock(p))

SpecLive == InitLive /\ [][NextLive]_vars /\ Fairness

(* ------------------------------------------------------------------ *)
(* GPIO lines of the card: signal_bit, plx_card_reset and              *)
(* plx_card_press_power_button, by two callers, one step per lock      *)
(* operation, register access and sleep. The clock counts jiffies of   *)
(* MsPerJiffy milliseconds; the bit positions and the grace period come *)
(* from plx_hw.h and stand for any distinct bits and positive period.   *)
(* ------------------------------------------------------------------ *)

\* The clock runs from InitialJiffies for MaxTime jiffies.
MaxTime == 3

InitialJiffies == 2

MsPerJiffy == 4000

GPIO_REG == 1572

MARGIN_TIME == 8

POWER_OFF_HOLD_TIME == 5200 + MARGIN_TIME

POWER_OFF_PULSE_TIME == 200 + MARGIN_TIME

RESET_PULSE_TIME == 16 + MARGIN_TIME

\* msleep(100) between the second timestamp and plx_lbp_reset_stop.
RESET_STOP_DELAY == 100

RESET_GRACE_PERIOD_MS == 8000

VCA_VV == 1

VCA_MV == 2

PLX_VV_CPU_NUMS == 3

PLX_MV_CPU_NUMS == 3

\* plx_reset_bits[t][cpu_id] and plx_power_button_bits[cpu_id]: one bit each.
plx_reset_bits(t, cpu_id) == IF t = 0 THEN Pow2(cpu_id) ELSE Pow2(3 + cpu_id)

plx_power_button_bits(cpu_id) == Pow2(6 + cpu_id)

\* Every line idle (high).
GpioIdle == Pow2(9) - 1

\* a | m
Or(a, m) == a + AndNot(m, a)

msecs_to_jiffies(ms) == DIV_ROUND_UP(ms, MsPerJiffy)

plx_get_cpu_num(card_type) ==
    IF And(card_type, VCA_VV) # 0 THEN PLX_VV_CPU_NUMS
    ELSE IF And(card_type, VCA_MV) # 0 THEN PLX_MV_CPU_NUMS
    ELSE 0

\* The CPUs of the card that have a device context in plx_contexts.
Nodes == {0}

\* Mutant: the grace period includes its last instant.
InGrace_Inclusive(time, ts) ==
    time >= ts /\ time <= ts + msecs_to_jiffies(RESET_GRACE_PERIOD_MS)

\* time_after_eq64(time, ts) && time_before64(time, ts + grace)
InGrace(time, ts) ==
    time >= ts /\ time < ts + msecs_to_jiffies(RESET_GRACE_PERIOD_MS)

\* Mutant: mutex_lock returns at once, whoever holds the mutex.
MutexAcquires_Always(l) == TRUE

\* mutex_lock returns when the mutex is free, and then holds it.
MutexAcquires(l) == l = 0

\* How the wait of signal_bit can end: msleep after ms milliseconds;
\* wait_for_completion_interruptible_timeout after ms milliseconds, when the
\* completion is completed, or when a signal is pending for the caller.
WakeReasons(has_completion) ==
    IF has_completion THEN {"timeout", "completed", "interrupted"} ELSE {"timeout"}

\* A caller outside a call, and the locals of a call. Of a call are kept,
\* besides: ts0, the reset_ts its grace check read; ev, what it did so far;
\* clean, whether each of its register writes changed its own bit only;
\* high, whether its last write left its bit at 1.
NoGpioCall == [pc |-> "idle", op |-> "none", cpu |-> 0, compl |-> FALSE,
               ws |-> FALSE, ts_req |-> FALSE, bit |-> 0, ms |-> 0, data |-> 0,
               time |-> 0, ts0 |-> 0, deadline |-> 0, ev |-> <<>>, clean |-> TRUE,
               high |-> FALSE]

\* The calls of a caller: the first makes every call, the second plain
\* resets and presses of CPU 0.
ResetArgs(p) ==
    IF p = "p" THEN {0 - 1, 0, 1, PLX_MV_CPU_NUMS} \X BOOLEAN
    ELSE {<<0, FALSE>>}

PowerArgs(p) ==
    IF p = "p" THEN {0, PLX_MV_CPU_NUMS} \X BOOLEAN \X BOOLEAN \X BOOLEAN
    ELSE {<<0, FALSE, FALSE, FALSE>>}

\* The write of v changes no bit of the register but bit.
OnlyBit(old, v, bit) == AndNot(old, bit) = AndNot(v, bit)

InitGpio ==
    /\ \E t \in {VCA_VV, VCA_MV, 0} :
           dev = [card_type |-> t, mmio_lock |-> 0,
                  reset_lock |-> [c \in Nodes |-> 0],
                  reset_ts |-> [c \in Nodes |-> 0],
                  power_ts |-> [c \in Nodes |-> 0]]
    /\ env = [jiffies |-> InitialJiffies, unloaded |-> FALSE]
    /\ regs = [o \in {GPIO_REG} |-> GpioIdle]
    /\ procs = [p \in Procs |-> NoGpioCall]
    /\ segment_size = 0
    /\ segments_num = 0
    /\ a_lut_array_base = 0
    /\ aper_len = 0
    /\ entries = plx_alm_reset(0)
    /\ alm_lock = 0
    /\ last = NoCall
    /\ log = <<>>
    /\ pre = entries
    /\ hist = [i \in {} |-> NoWindow]
    /\ rt = NoRoundTrip
    /\ idx = 0
    /\ off = 0
    /\ script = <<>>
    /\ watch = NoWatch

FrameGpio == UNCHANGED <<segment_size, segments_num, a_lut_array_base, entries,
                         alm_lock, last, log, pre, hist, rt, idx, off, aper_len,
                         script, watch>>

\* The register and the call's record as the call writes v to the GPIO register.
GpioWrite(p, v) ==
    regs' = plx_mmio_write([regs |-> regs, log |-> <<>>, lock |-> 0], v, GPIO_REG).regs

\* plx_card_reset up to mutex_lock(&node->reset_lock): the checks of the CPU
\* id and of the device context.
ResetCall(p, cpu_id, has_completion) ==
    /\ procs[p].pc = "idle"
    /\ procs' = [procs EXCEPT ![p] =
           [NoGpioCall EXCEPT
               !.op = "reset", !.cpu = cpu_id, !.compl = has_completion,
               !.pc = IF cpu_id < 0 \/ cpu_id >= plx_get_cpu_num(dev.card_type)
                         \/ cpu_id \notin Nodes
                      THEN "done" ELSE "r_lock"]]
    /\ UNCHANGED <<regs, dev, env>>
    /\ FrameGpio

\* mutex_lock(&node->reset_lock); time = get_jiffies_64();
ResetLock(p) ==
    /\ procs[p].pc = "r_lock"
    /\ MutexAcquires(dev.reset_lock[procs[p].cpu])
    /\ dev' = [dev EXCEPT !.reset_lock[procs[p].cpu] = 1]
    /\ procs' = [procs EXCEPT ![p].pc = "r_check", ![p].time = env.jiffies,
                              ![p].ts0 = dev.reset_ts[procs[p].cpu],
                              ![p].ev = Append(@, "check")]
    /\ UNCHANGED <<regs, env>>
    /\ FrameGpio

\* The grace check, lines 1087-1096. Inside the period: unlock and return.
\* Outside: node->reset_ts = get_jiffies_64(); mutex_unlock(&node->reset_lock).
ResetCheck(p) ==
    /\ procs[p].pc = "r_check"
    /\ IF InGrace(procs[p].time, dev.reset_ts[procs[p].cpu])
       THEN /\ dev' = [dev EXCEPT !.reset_lock[procs[p].cpu] = 0]
            /\ procs' = [procs EXCEPT ![p].pc = "done",
                                      ![p].ev = Append(@, "ignored")]
       ELSE /\ dev' = [dev EXCEPT !.reset_lock[procs[p].cpu] = 0,
                                  !.reset_ts[procs[p].cpu] = env.jiffies]
            /\ procs' = [procs EXCEPT ![p].pc = "r_start",
                                      ![p].ev = Append(@, "stamp")]
    /\ UNCHANGED <<regs, env>>
    /\ FrameGpio

\* After the unlock, lines 1098-1112: the bits of the card type (a card that
\* is neither VV nor MV returns here), bit = card_bits[cpu_id], and
\* plx_lbp_reset_start; signal_bit follows.
ResetStart(p) ==
    /\ procs[p].pc = "r_start"
    /\ IF And(dev.card_type, VCA_VV) # 0 \/ And(dev.card_type, VCA_MV) # 0
       THEN procs' = [procs EXCEPT
                ![p].pc = "sb_lock1",
                ![p].bit = plx_reset_bits(
                               IF And(dev.card_type, VCA_VV) # 0 THEN 0 ELSE 1,
                               procs[p].cpu),
                ![p].ms = RESET_PULSE_TIME,
                ![p].ev = Append(@, "reset_start")]
       ELSE procs' = [procs EXCEPT ![p].pc = "done"]
    /\ UNCHANGED <<regs, dev, env>>
    /\ FrameGpio

\* Mutant: a press that is refused returns without completing wait_start.
CompleteOnReturn_Never(has_wait_start) == << >>

\* if (wait_start) complete_all(wait_start); on the paths that press nothing.
CompleteOnReturn(has_wait_start) ==
    IF has_wait_start THEN << "complete_all" >> ELSE << >>

\* plx_card_press_power_button up to signal_bit, or to its return.
PowerCall(p, cpu_id, hold, has_completion, has_wait_start) ==
    /\ procs[p].pc = "idle"
    /\ LET valid == And(dev.card_type, VCA_MV) # 0
                       /\ ~(cpu_id < 0 \/ cpu_id >= plx_get_cpu_num(dev.card_type))
       IN  procs' = [procs EXCEPT ![p] =
               [NoGpioCall EXCEPT
                   !.op = "power", !.cpu = cpu_id, !.compl = has_completion,
                   !.ws = has_wait_start,
                   !.ts_req = valid,
                   !.bit = IF valid THEN plx_power_button_bits(cpu_id) ELSE 0,
                   !.ms = IF hold THEN POWER_OFF_HOLD_TIME ELSE POWER_OFF_PULSE_TIME,
                   !.ev = IF valid THEN << >> ELSE CompleteOnReturn(has_wait_start),
                   !.pc = IF valid THEN "sb_lock1" ELSE "done"]]
    /\ UNCHANGED <<regs, dev, env>>
    /\ FrameGpio

\* signal_bit: mutex_lock; data = plx_mmio_read(offset);
SignalLowRead(p) ==
    /\ procs[p].pc = "sb_lock1"
    /\ MutexAcquires(dev.mmio_lock)
    /\ dev' = [dev EXCEPT !.mmio_lock = 1]
    /\ procs' = [procs EXCEPT ![p].pc = "sb_low", ![p].data = regs[GPIO_REG],
                              ![p].ts0 = 0]
    /\ UNCHANGED <<regs, env>>
    /\ FrameGpio

\* data &= ~bit; plx_mmio_write(data, offset); mutex_unlock;
SignalLowWrite(p) ==
    /\ procs[p].pc = "sb_low"
    /\ GpioWrite(p, AndNot(procs[p].data, procs[p].bit))
    /\ dev' = [dev EXCEPT !.mmio_lock = 0]
    /\ procs' = [procs EXCEPT
                   ![p].pc = "sb_start",
                   ![p].clean = @ /\ OnlyBit(regs[GPIO_REG],
                                              AndNot(procs[p].data, procs[p].bit),
                                              procs[p].bit),
                   ![p].ev = Append(@, "low")]
    /\ UNCHANGED env
    /\ FrameGpio

\* if (wait_start) complete_all(wait_start); and the wait begins.
SignalStart(p) ==
    /\ procs[p].pc = "sb_start"
    /\ procs' = [procs EXCEPT
                   ![p].pc = "sb_wait",
                   ![p].deadline = env.jiffies + msecs_to_jiffies(procs[p].ms),
                   ![p].ev = IF procs[p].ws
                             THEN Append(@, "complete_all") ELSE @]
    /\ UNCHANGED <<regs, dev, env>>
    /\ FrameGpio

\* The wait ends.
SignalWake(p, why) ==
    /\ procs[p].pc = "sb_wait"
    /\ why \in WakeReasons(procs[p].compl)
    /\ why = "timeout" => env.jiffies >= procs[p].deadline
    /\ why = "completed" => env.unloaded
    /\ procs' = [procs EXCEPT ![p].pc = "sb_lock2", ![p].deadline = 0,
                              ![p].ev = Append(@, IF why = "timeout"
                                                     \/ env.jiffies >= procs[p].deadline
                                                  THEN "elapsed" ELSE why)]
    /\ UNCHANGED <<regs, dev, env>>
    /\ FrameGpio

\* mutex_lock; *signal_release_ts = get_jiffies_64(); data = plx_mmio_read;
SignalHighRead(p) ==
    /\ procs[p].pc = "sb_lock2"
    /\ MutexAcquires(dev.mmio_lock)
    /\ dev' = [dev EXCEPT !.mmio_lock = 1,
                          !.power_ts = IF procs[p].ts_req
                                       THEN [@ EXCEPT ![procs[p].cpu] = env.jiffies]
                                       ELSE @]
    /\ procs' = [procs EXCEPT
                   ![p].pc = "sb_high", ![p].data = regs[GPIO_REG],
                   ![p].ev = IF procs[p].ts_req
                             THEN Append(@, "release_ts") ELSE @]
    /\ UNCHANGED <<regs, env>>
    /\ FrameGpio

\* data |= bit; plx_mmio_write(data, offset); mutex_unlock; signal_bit returns.
SignalHighWrite(p) ==
    /\ procs[p].pc = "sb_high"
    /\ GpioWrite(p, Or(procs[p].data, procs[p].bit))
    /\ dev' = [dev EXCEPT !.mmio_lock = 0]
    /\ procs' = [procs EXCEPT
                   ![p].pc = IF procs[p].op = "reset" THEN "r_lock2" ELSE "done",
                   ![p].clean = @ /\ OnlyBit(regs[GPIO_REG],
                                              Or(procs[p].data, procs[p].bit),
                                              procs[p].bit),
                   ![p].high = And(Or(procs[p].data, procs[p].bit), procs[p].bit)
                                   = procs[p].bit,
                   ![p].ev = Append(@, "high")]
    /\ UNCHANGED env
    /\ FrameGpio

\* plx_card_reset after the pulse: mutex_lock; node->reset_ts = get_jiffies_64();
ResetStamp(p) ==
    /\ procs[p].pc = "r_lock2"
    /\ MutexAcquires(dev.reset_lock[procs[p].cpu])
    /\ dev' = [dev EXCEPT !.reset_lock[procs[p].cpu] = 1,
                          !.reset_ts[procs[p].cpu] = env.jiffies]
    /\ procs' = [procs EXCEPT ![p].pc = "r_unlock2",
                              ![p].ev = Append(@, "stamp")]
    /\ UNCHANGED <<regs, env>>
    /\ FrameGpio

\* mutex_unlock(&node->reset_lock) of line 1117; msleep(100) begins.
ResetUnlock(p) ==
    /\ procs[p].pc = "r_unlock2"
    /\ dev' = [dev EXCEPT !.reset_lock[procs[p].cpu] = 0]
    /\ procs' = [procs EXCEPT
                   ![p].pc = "r_sleep",
                   ![p].deadline = env.jiffies + msecs_to_jiffies(RESET_STOP_DELAY)]
    /\ UNCHANGED <<regs, env>>
    /\ FrameGpio

\* msleep(100) of line 1119 is over.
ResetSlept(p) ==
    /\ procs[p].pc = "r_sleep"
    /\ env.jiffies >= procs[p].deadline
    /\ procs' = [procs EXCEPT ![p].pc = "r_stop", ![p].deadline = 0]
    /\ UNCHANGED <<regs, dev, env>>
    /\ FrameGpio

\* plx_lbp_reset_stop of line 1120, and the return.
ResetStop(p) ==
    /\ procs[p].pc = "r_stop"
    /\ procs' = [procs EXCEPT ![p].pc = "done",
                              ![p].ev = Append(@, "reset_stop")]
    /\ UNCHANGED <<regs, dev, env>>
    /\ FrameGpio

\* The call has returned; its caller goes on.
GpioReturn(p) ==
    /\ procs[p].pc = "done"
    /\ procs' = [procs EXCEPT ![p] = NoGpioCall]
    /\ UNCHANGED <<regs, dev, env>>
    /\ FrameGpio

\* A timer tick.
Tick ==
    /\ env.jiffies < InitialJiffies + MaxTime
    /\ env' = [env EXCEPT !.jiffies = @ + 1]
    /\ UNCHANGED <<regs, dev, procs>>
    /\ FrameGpio

\* The driver unloads: the completion the waits share is completed.
Unload ==
    /\ ~env.unloaded
    /\ env' = [env EXCEPT !.unloaded = TRUE]
    /\ UNCHANGED <<regs, dev, procs>>
    /\ FrameGpio

NextGpio ==
    \/ Tick
    \/ Unload
    \/ \E p \in Procs :
           \/ \E a \in ResetArgs(p) : ResetCall(p, a[1], a[2])
           \/ \E a \in PowerArgs(p) : PowerCall(p, a[1], a[2], a[3], a[4])
           \/ ResetLock(p) \/ ResetCheck(p) \/ ResetStart(p)
           \/ SignalLowRead(p) \/ SignalLowWrite(p) \/ SignalStart(p)
           \/ \E why \in {"timeout", "completed", "interrupted"} : SignalWake(p, why)
           \/ SignalHighRead(p) \/ SignalHighWrite(p)
           \/ ResetStamp(p) \/ ResetUnlock(p) \/ ResetSlept(p) \/ ResetStop(p)
           \/ GpioReturn(p)

SpecGpio == InitGpio /\ [][NextGpio]_vars

(* ------------------------------------------------------------------ *)
(* The other read-modify-writes of the GPIO register: _set_bit and     *)
(* _clear_bit (plx_turn_rcv_mode), plx_set_SMB_id and                  *)
(* plx_init_vca_g2_gpios, one step for the locked read and one for the *)
(* write, beside the pulses of signal_bit. Of such a call op is the    *)
(* kind of change, bit the bits it owns and cpu its argument.          *)
(* ------------------------------------------------------------------ *)

\* plx_bios_rcv_bits[cpu_id]: one bit each.
plx_bios_rcv_bits(cpu_id) == Pow2(9 + cpu_id)

PLX_SEL0_BIT == Pow2(12)

PLX_SEL1_BIT == Pow2(13)

PLX_SEL2_BIT == Pow2(14)

PLX_CARD_RESET_BIT == Pow2(15)

\* Every output at its default level, the card's reset line included.
PLX_MV_DEF_GPIO_VAL == Pow2(16) - 1

\* The three low bits of the id on the three select lines.
ID_TO_PLX_SEL_BITS(id) == (id % 8) * PLX_SEL0_BIT

\* The ids given to plx_set_SMB_id.
SmbIds == {0, 5}

\* The value a call writes, from the value data it read.
\* _set_bit: data |= bit;  _clear_bit: data &= ~bit;
\* plx_set_SMB_id: data &= ~(SEL0 | SEL1 | SEL2); data += smb_id_bits;
\* plx_init_vca_g2_gpios: data = PLX_MV_DEF_GPIO_VAL;
NewData(c) ==
    CASE c.op = "set" -> Or(c.data, c.bit)
      [] c.op = "clear" -> AndNot(c.data, c.bit)
      [] c.op = "smb" ->
             AndNot(c.data, PLX_SEL0_BIT + PLX_SEL1_BIT + PLX_SEL2_BIT)
                 + ID_TO_PLX_SEL_BITS(c.cpu)
      [] OTHER -> PLX_MV_DEF_GPIO_VAL

\* if (!(data & PLX_CARD_RESET_BIT)): plx_init_vca_g2_gpios writes; the
\* other calls always do.
Writes(c) == c.op = "init" => And(c.data, PLX_CARD_RESET_BIT) = 0

InitBits ==
    /\ \E t \in {VCA_VV, VCA_MV} :
           dev = [card_type |-> t, mmio_lock |-> 0,
                  reset_lock |-> [c \in Nodes |-> 0],
                  reset_ts |-> [c \in Nodes |-> 0],
                  power_ts |-> [c \in Nodes |-> 0]]
    /\ env = [jiffies |-> InitialJiffies, unloaded |-> FALSE]
    /\ \E v \in {0, PLX_MV_DEF_GPIO_VAL} : regs = [o \in {GPIO_REG} |-> v]
    /\ procs = [p \in Procs |-> NoGpioCall]
    /\ segment_size = 0
    /\ segments_num = 0
    /\ a_lut_array_base = 0
    /\ aper_len = 0
    /\ entries = plx_alm_reset(0)
    /\ alm_lock = 0
    /\ last = NoCall
    /\ log = <<>>
    /\ pre = entries
    /\ hist = [i \in {} |-> NoWindow]
    /\ rt = NoRoundTrip
    /\ idx = 0
    /\ off = 0
    /\ script = <<>>
    /\ watch = NoWatch

\* plx_turn_rcv_mode up to _clear_bit or _set_bit, or to its return.
RcvCall(p, cpu_id, turn_on) ==
    /\ procs[p].pc = "idle"
    /\ LET valid == And(dev.card_type, VCA_MV) # 0
       IN  procs' = [procs EXCEPT ![p] =
               [NoGpioCall EXCEPT
                   !.op = IF turn_on THEN "clear" ELSE "set",
                   !.cpu = cpu_id,
                   !.bit = IF valid THEN plx_bios_rcv_bits(cpu_id) ELSE 0,
                   !.pc = IF valid THEN "b_lock" ELSE "done"]]
    /\ UNCHANGED <<regs, dev, env>>
    /\ FrameGpio

\* plx_set_SMB_id up to mutex_lock, or to its return.
SmbCall(p, id) ==
    /\ procs[p].pc = "idle"
    /\ LET valid == And(dev.card_type, VCA_VV) # 0
       IN  procs' = [procs EXCEPT ![p] =
               [NoGpioCall EXCEPT
                   !.op = "smb",
                   !.cpu = id,
                   !.bit = IF valid
                           THEN PLX_SEL0_BIT + PLX_SEL1_BIT + PLX_SEL2_BIT
                           ELSE 0,
                   !.pc = IF valid THEN "b_lock" ELSE "done"]]
    /\ UNCHANGED <<regs, dev, env>>
    /\ FrameGpio

\* plx_init_vca_g2_gpios up to mutex_lock.
InitGpiosCall(p) ==
    /\ procs[p].pc = "idle"
    /\ procs' = [procs EXCEPT ![p] =
           [NoGpioCall EXCEPT !.op = "init", !.bit = PLX_MV_DEF_GPIO_VAL,
                              !.pc = "b_lock"]]
    /\ UNCHANGED <<regs, dev, env>>
    /\ FrameGpio

\* mutex_lock(&xdev->mmio_lock); data = plx_mmio_read(xdev, offset);
BitRead(p) ==
    /\ procs[p].pc = "b_lock"
    /\ MutexAcquires(dev.mmio_lock)
    /\ dev' = [dev EXCEPT !.mmio_lock = 1]
    /\ procs' = [procs EXCEPT ![p].pc = "b_write", ![p].data = regs[GPIO_REG]]
    /\ UNCHANGED <<regs, env>>
    /\ FrameGpio

\* The change of data; plx_mmio_write(xdev, offset, data); mutex_unlock. In
\* plx_init_vca_g2_gpios msleep(GPIO_DEF_WAIT_TIME) comes before the unlock.
BitWrite(p) ==
    /\ procs[p].pc = "b_write"
    /\ IF Writes(procs[p])
       THEN GpioWrite(p, NewData(procs[p]))
       ELSE UNCHANGED regs
    /\ dev' = [dev EXCEPT !.mmio_lock = IF procs[p].op = "init"
                                           /\ Writes(procs[p])
                                        THEN 1 ELSE 0]
    /\ procs' = [procs EXCEPT
                   ![p].pc = IF procs[p].op = "init" /\ Writes(procs[p])
                             THEN "b_sleep" ELSE "done",
                   ![p].clean = @ /\ (Writes(procs[p]) =>
                                        OnlyBit(regs[GPIO_REG], NewData(procs[p]),
                                                procs[p].bit)),
                   ![p].ev = IF Writes(procs[p]) THEN Append(@, procs[p].op)
                             ELSE @]
    /\ UNCHANGED env
    /\ FrameGpio

\* msleep(GPIO_DEF_WAIT_TIME) is over; mutex_unlock(&xdev->mmio_lock);
InitGpiosUnlock(p) ==
    /\ procs[p].pc = "b_sleep"
    /\ dev' = [dev EXCEPT !.mmio_lock = 0]
    /\ procs' = [procs EXCEPT ![p].pc = "done"]
    /\ UNCHANGED <<regs, env>>
    /\ FrameGpio

\* The calls of a caller: the first pulses the lines of CPU 0, the second
\* changes the other bits; both may program the defaults.
NextBits ==
    \/ Tick
    \/ ResetCall("p", 0, FALSE)
    \/ PowerCall("p", 0, FALSE, FALSE, FALSE)
    \/ \E cpu_id \in {0, 1}, turn_on \in BOOLEAN : RcvCall("q", cpu_id, turn_on)
    \/ \E id \in SmbIds : SmbCall("q", id)
    \/ \E p \in Procs :
           \/ InitGpiosCall(p)
           \/ ResetLock(p) \/ ResetCheck(p) \/ ResetStart(p)
           \/ SignalLowRead(p) \/ SignalLowWrite(p) \/ SignalStart(p)
           \/ SignalWake(p, "timeout")
           \/ SignalHighRead(p) \/ SignalHighWrite(p)
           \/ ResetStamp(p) \/ ResetUnlock(p) \/ ResetSlept(p) \/ ResetStop(p)
           \/ BitRead(p) \/ BitWrite(p) \/ InitGpiosUnlock(p)
           \/ GpioReturn(p)

SpecBits == InitBits /\ [][NextBits]_vars

(* ------------------------------------------------------------------ *)
(* The EEPROM: eeprom_validate, the polling loops, plx_update_eeprom   *)
(* ------------------------------------------------------------------ *)

\* Polls of one command, and status commands of one access (plx_hw.h has a
\* larger number).
PLX_EEP_WAIT_TRIES == 2

\* plx_update_eeprom's offset is a u16.
OffsetBits == 16

\* The width of the bit-field eep_blk_addr of struct plx_eep_status_register
\* (plx_hw.h): bits 12:0 of the register on the chip, eep_blk_addr_upper_bit
\* being a field of its own, which the code sets to 0.
EepBlkAddrBits == 13

\* status.eep_blk_addr = offset: the bit-field keeps the low bits.
BlkAddr(offset) == offset % Pow2(EepBlkAddrBits)

\* The EEPROM holds EepBlocks words of four bytes.
EepBlocks == 5

PLX_EEP_BUFFER == 612

PLX_EEP_ADDRESS_BYTE == 620

PLX_EEP_HEADER_LENGTH_BYTE == 4

PLX_EEP_CRC_LENGTH_BYTE == 4

PLX_EEP_CONFIGURATION_ALIGNMENT_BYTE == 6

PLX_EEP_VALIDATION_HEADER == 90

PLX_EEP_START_CRC_OFFSET == 0

\* 0xDB710641, the low byte first.
PLX_EEP_CONST_CRC_XOR_VALUE == <<65, 6, 113, 219>>

PLX_EEP_STATUS_OK == "PLX_EEP_STATUS_OK"

PLX_EEP_TIMEOUT == "PLX_EEP_TIMEOUT"

PLX_EEP_INTERNAL_ERROR == "PLX_EEP_INTERNAL_ERROR"

PLX_EEP_CMD_READ_STATUS == "PLX_EEP_CMD_READ_STATUS"

PLX_EEP_CMD_WRITE_ENABLE == "PLX_EEP_CMD_WRITE_ENABLE"

PLX_EEP_CMD_WRITE == "PLX_EEP_CMD_WRITE"

PLX_EEP_CMD_READ == "PLX_EEP_CMD_READ"

\* The n bytes of data at offset, in memory order.
Bytes(data, offset, n) == SubSeq(data, offset + 1, offset + n)

RECURSIVE Xor(_, _)
\* a ^ b.
Xor(a, b) ==
    IF a = 0 THEN b
    ELSE IF b = 0 THEN a
    ELSE (((a % 2) + (b % 2)) % 2) + 2 * Xor(a \div 2, b \div 2)

\* The 32-bit little-endian value whose bytes are w, as its upper and lower
\* 16 bits: *(u32*) of four bytes, *(u16*) of two (the upper half is zero).
WordOf(w) ==
    [hi |-> IF Len(w) >= 4 THEN w[3] + 256 * w[4] ELSE 0,
     lo |-> w[1] + 256 * w[2]]

\* The four bytes of a 32-bit value, the low byte first.
BytesOf(v) ==
    <<v.lo % 256, v.lo \div 256, v.hi % 256, v.hi \div 256>>

\* Bit k of a 32-bit value.
BitOf(v, k) ==
    IF k >= 16 THEN (v.hi \div Pow2(k - 16)) % 2 ELSE (v.lo \div Pow2(k)) % 2

\* One turn of the inner loop of eeprom_check_crc: bit 31 of
\* crc_calculated ^ (next_crc_value << i) decides whether the constant is
\* folded into crc_calculated << 1.
CrcShift(crc, next, i) ==
    LET xor_value == IF (BitOf(crc, 31) + BitOf(next, 31 - i)) % 2 = 1
                     THEN WordOf(PLX_EEP_CONST_CRC_XOR_VALUE)
                     ELSE [hi |-> 0, lo |-> 0]
        hi == (crc.hi * 2 + (crc.lo \div Pow2(15))) % Pow2(16)
        lo == (crc.lo * 2) % Pow2(16)
    IN [hi |-> Xor(hi, xor_value.hi), lo |-> Xor(lo, xor_value.lo)]

RECURSIVE CrcWord(_, _, _)
\* for (i = 0; i < 32; ++i) over one value.
CrcWord(crc, next, i) ==
    IF i = 32 \/ crc.hi >= Pow2(16) THEN crc
    ELSE CrcWord(CrcShift(crc, next, i), next, i + 1)

\* ~0U
AllOnes == [hi |-> Pow2(16) - 1, lo |-> Pow2(16) - 1]

RECURSIVE CrcRun(_, _, _, _)
\* The outer loop of eeprom_check_crc from crc_offset on.
CrcRun(data, crc, crc_offset, crc_end_offset) ==
    IF crc_offset >= crc_end_offset THEN crc
    ELSE LET n == IF crc_end_offset - crc_offset = 2 THEN 2 ELSE 4
         IN CrcRun(data, CrcWord(crc, WordOf(Bytes(data, crc_offset, n)), 0),
                   crc_offset + 4, crc_end_offset)

eeprom_check_crc(eeprom_data, eeprom_size) ==
    LET crc_end_offset == eeprom_size - PLX_EEP_CRC_LENGTH_BYTE
        crc_calculated == CrcRun(eeprom_data, AllOnes,
                                 PLX_EEP_START_CRC_OFFSET, crc_end_offset)
        crc_value == WordOf(Bytes(eeprom_data, crc_end_offset, 4))
    IN IF crc_calculated # crc_value THEN PLX_EEP_INTERNAL_ERROR
       ELSE PLX_EEP_STATUS_OK

\* header->configuration_size: the unsigned short at offset 2.
ConfigurationSize(eeprom_data) == eeprom_data[3] + 256 * eeprom_data[4]

eeprom_validate(eeprom_data, eeprom_size) ==
    IF eeprom_size <= PLX_EEP_HEADER_LENGTH_BYTE + PLX_EEP_CRC_LENGTH_BYTE
    THEN PLX_EEP_INTERNAL_ERROR
    ELSE IF ConfigurationSize(eeprom_data)
                % PLX_EEP_CONFIGURATION_ALIGNMENT_BYTE # 0
    THEN PLX_EEP_INTERNAL_ERROR
    ELSE IF eeprom_size - PLX_EEP_HEADER_LENGTH_BYTE - PLX_EEP_CRC_LENGTH_BYTE
                # ConfigurationSize(eeprom_data)
    THEN PLX_EEP_INTERNAL_ERROR
    ELSE IF eeprom_data[1] # PLX_EEP_VALIDATION_HEADER
    THEN PLX_EEP_INTERNAL_ERROR
    ELSE eeprom_check_crc(eeprom_data, eeprom_size)

\* An image: header, configuration and the CRC of both.
WithCrc(body) ==
    body \o BytesOf(CrcRun(body, AllOnes, PLX_EEP_START_CRC_OFFSET, Len(body)))

\* One (register, value) pair: three words and a tail of two bytes.
ImageA == WithCrc(<<90, 0, 6, 0, 16, 0, 1, 2, 3, 4>>)

\* Two pairs: five words.
ImageB == WithCrc(<<90, 0, 12, 0, 16, 0, 1, 2, 3, 4, 20, 0, 5, 6, 7, 8>>)

GoodImages == {ImageA, ImageB}

\* Too short; a configuration size that is no multiple of the pair's length;
\* a configuration size that is not the image's; no signature; a wrong CRC.
BadImages ==
    { <<90, 0, 0, 0, 0, 0, 0, 0>>,
      WithCrc(<<90, 0, 8, 0, 16, 0, 1, 2, 3, 4, 5, 6>>),
      WithCrc(<<90, 0, 12, 0, 16, 0, 1, 2, 3, 4>>),
      WithCrc(<<0, 0, 6, 0, 16, 0, 1, 2, 3, 4>>),
      [ImageA EXCEPT ![Len(ImageA)] = (@ + 1) % 256] }

Images == GoodImages \cup BadImages

\* What eeprom_validate says of each image.
Validated == { <<img, eeprom_validate(img, Len(img))>> : img \in Images }

\* The blocks whose cells may be worn out: a WRITE to such a block is lost.
\* EepBlocks stands for a chip that has none.
WornBlocks == {1, 3, EepBlocks}

\* What a status command finds: eep_ready and eep_write_status.
ReadyStates == {<<0, 0>>, <<1, 0>>, <<0, 1>>}

\* An image is kept as its bytes, or, where env.sized is set, as its length
\* and what else eeprom_validate reads of it (see ImageOfSize): byte i of
\* such an image is a byte of its header, of its CRC, or a zero of its data.
SizedByte(h, i) ==
    IF i = 0 THEN h.signature
    ELSE IF i = 1 THEN 0
    ELSE IF i = 2 THEN h.configuration_size % 256
    ELSE IF i = 3 THEN h.configuration_size \div 256
    ELSE IF i >= h.size THEN 0
    ELSE IF i >= h.size - 4 THEN h.crc[i - (h.size - 4) + 1]
    ELSE 0

\* eeprom_size and the bytes plx_update_eeprom takes from eeprom_data.
ImageSize(e, img) == IF e.sized THEN img.size ELSE Len(img)

ImageBytes(e, img, offset, n) ==
    IF e.sized THEN [k \in 1 .. n |-> SizedByte(img, offset + k - 1)]
    ELSE Bytes(img, offset, n)

\* The EEPROM is kept as its blocks, or, where env.sized is set, as the
\* image and the number upto of its words written so far in the order of the
\* loop: word k (from 0) is the word at offset 4k mod 2^OffsetBits and went
\* to block k mod 2^EepBlkAddrBits. A block holds the last word that went to
\* it and is blank when none did.
MemWord(e, b) ==
    IF e.sized
    THEN (IF e.mem.upto = 0 \/ b >= Pow2(EepBlkAddrBits) THEN <<0, 0, 0, 0>>
          ELSE LET n == Pow2(EepBlkAddrBits)
                   k == (e.mem.upto - 1) - ((e.mem.upto - 1 - b + n) % n)
               IN  IF k < 0 THEN <<0, 0, 0, 0>>
                   ELSE ImageBytes(e, e.mem.img, (4 * k) % Pow2(OffsetBits), 4))
    ELSE e.mem[b]

\* The EEPROM after block b took the value v. The blocks are the same after
\* upto words and after upto less the words of one round of the offset, once
\* every block was written, and upto is kept below the sum of the two; exact
\* is lost when a word is written out of the order of the loop.
MemStore(e, b, v) ==
    IF e.sized
    THEN LET n == Pow2(EepBlkAddrBits)
             w == Pow2(OffsetBits) \div 4
             u == e.mem.upto
         IN  IF b = u % n
                /\ v = ImageBytes(e, e.mem.img, (4 * u) % Pow2(OffsetBits), 4)
             THEN [e.mem EXCEPT !.upto = IF u + 1 >= n + w THEN u + 1 - w
                                         ELSE u + 1]
             ELSE IF v = MemWord(e, b) THEN e.mem
             ELSE [e.mem EXCEPT !.exact = FALSE]
    ELSE [e.mem EXCEPT ![b] = v]

\* The offsets written and verified are followed for the images kept as
\* bytes.
Noted(e, offsets, offset) == IF e.sized THEN offsets ELSE Append(offsets, offset)

NoStatus == [eep_cmd |-> "none", eep_blk_addr |-> 0, eep_cmd_status |-> 0,
             eep_ready |-> 0, eep_write_status |-> 0]

\* A caller outside plx_update_eeprom. seen and rseen are what the polls of
\* the last command and the status commands of the last access found, cw and
\* ar the results of eeprom_wait_for_cmd_complete and of
\* eeprom_wait_for_access_ready, written and verified the offsets whose
\* WRITE was sent and whose read-back compared equal, io what the call has
\* done to the device.
NoEepCall == [pc |-> "idle", img |-> <<>>, offset |-> 0,
              ret |-> PLX_EEP_STATUS_OK, value |-> <<>>, wval |-> <<>>,
              acc |-> "none", plan |-> "none", aoff |-> 0, after |-> "none",
              status |-> NoStatus, tries_left |-> 0, polls_left |-> 0,
              seen |-> <<>>, cw |-> "none", rseen |-> <<>>, scmds |-> 0,
              ar |-> "none", written |-> <<>>, verified |-> <<>>, io |-> {}]

InitEeprom ==
    /\ dev = [mmio_lock |-> 0]
    /\ \E worn \in WornBlocks :
           env = [mem |-> [b \in 0 .. EepBlocks - 1 |-> <<0, 0, 0, 0>>],
                  wel |-> FALSE, worn |-> worn, sized |-> FALSE]
    /\ \E a \in {0, 2} :
           regs = [o \in {PLX_EEP_STATUS_CONTROL, PLX_EEP_BUFFER,
                          PLX_EEP_ADDRESS_BYTE} |->
                      IF o = PLX_EEP_STATUS_CONTROL THEN NoStatus
                      ELSE IF o = PLX_EEP_BUFFER THEN <<0, 0, 0, 0>>
                      ELSE a]
    /\ procs = [p \in Procs |-> NoEepCall]
    /\ segment_size = 0
    /\ segments_num = 0
    /\ a_lut_array_base = 0
    /\ aper_len = 0
    /\ entries = plx_alm_reset(0)
    /\ alm_lock = 0
    /\ last = NoCall
    /\ log = <<>>
    /\ pre = entries
    /\ hist = [i \in {} |-> NoWindow]
    /\ rt = NoRoundTrip
    /\ idx = 0
    /\ off = 0
    /\ script = <<>>
    /\ watch = NoWatch

FrameEeprom == UNCHANGED <<segment_size, segments_num, a_lut_array_base,
                           entries, alm_lock, last, log, pre, hist, rt, idx,
                           off, aper_len, script, watch>>

\* The register after plx_mmio_write(&xdev->mmio, v, o).
EepWrite(r, v, o) ==
    plx_mmio_write([regs |-> r, log |-> <<>>, lock |-> 0], v, o).regs

\* Mutant: the image is validated after the lock is taken.
UpdateEntry_LockFirst(ret) == "lock"

\* ret = eeprom_validate(...); if (ret != PLX_EEP_STATUS_OK) return ret;
UpdateEntry(ret) == IF ret # PLX_EEP_STATUS_OK THEN "done" ELSE "lock"

\* plx_update_eeprom up to mutex_lock(&xdev->mmio_lock), or to its return.
UpdateCall(p, eeprom_data) ==
    /\ procs[p].pc = "idle"
    /\ \E v \in Validated :
           /\ v[1] = eeprom_data
           /\ procs' = [procs EXCEPT ![p] =
                  [NoEepCall EXCEPT !.img = eeprom_data, !.ret = v[2],
                                    !.pc = UpdateEntry(v[2])]]
    /\ UNCHANGED <<regs, dev, env>>
    /\ FrameEeprom

\* mutex_lock(&xdev->mmio_lock);
UpdateLock(p) ==
    /\ procs[p].pc = "lock"
    /\ MutexAcquires(dev.mmio_lock)
    /\ dev' = [dev EXCEPT !.mmio_lock = 1]
    /\ procs' = [procs EXCEPT ![p].pc = "addr", ![p].io = @ \cup {"lock"}]
    /\ UNCHANGED <<regs, env>>
    /\ FrameEeprom

\* The read of PLX_EEP_ADDRESS_BYTE, and the write that clears its two low
\* bits (the masks keep every other bit); offset = 0.
UpdateAddr(p) ==
    /\ procs[p].pc = "addr"
    /\ LET eep_3rd_addr_byte_reg == regs[PLX_EEP_ADDRESS_BYTE]
       IN IF eep_3rd_addr_byte_reg % 4 # 0
          THEN /\ regs' = EepWrite(regs, eep_3rd_addr_byte_reg
                                         - (eep_3rd_addr_byte_reg % 4),
                                   PLX_EEP_ADDRESS_BYTE)
               /\ procs' = [procs EXCEPT ![p].pc = "loop", ![p].offset = 0,
                                         ![p].io = @ \cup {"write"}]
          ELSE /\ regs' = regs
               /\ procs' = [procs EXCEPT ![p].pc = "loop", ![p].offset = 0]
    /\ UNCHANGED <<dev, env>>
    /\ FrameEeprom

\* The call's record as eeprom_read32 or eeprom_write32 begins at offset
\* aoff: eeprom_wait_for_access_ready up to its loop.
StartAccess(c, r, acc, plan, aoff) ==
    [c EXCEPT !.pc = "ready_send", !.acc = acc, !.plan = plan, !.aoff = aoff,
              !.tries_left = PLX_EEP_WAIT_TRIES, !.rseen = <<>>,
              !.scmds = 0, !.ar = "none",
              !.status = [r[PLX_EEP_STATUS_CONTROL] EXCEPT
                             !.eep_cmd = PLX_EEP_CMD_READ_STATUS,
                             !.eep_ready = 0, !.eep_write_status = 0]]

\* The head of the loop: the next word goes to eeprom_write32, a tail of two
\* bytes to eeprom_write16, which reads the word it is part of first.
LoopHead(p) ==
    /\ procs[p].pc = "loop"
    /\ LET c == procs[p]
           eeprom_size == ImageSize(env, c.img)
       IN procs' = [procs EXCEPT ![p] =
              IF c.offset < eeprom_size
              THEN IF eeprom_size - c.offset = 2
                   THEN StartAccess([c EXCEPT !.value =
                                         ImageBytes(env, c.img, c.offset, 2)],
                                    regs, "read32", "w16_read",
                                    c.offset - (c.offset % 4))
                   ELSE StartAccess([c EXCEPT !.value =
                                         ImageBytes(env, c.img, c.offset, 4),
                                              !.wval =
                                         ImageBytes(env, c.img, c.offset, 4)],
                                    regs, "write32", "word", c.offset)
              ELSE [c EXCEPT !.pc = "unlock"]]
    /\ UNCHANGED <<regs, dev, env>>
    /\ FrameEeprom

\* eeprom_send_cmd up to its wait: the command is written and the chip marks
\* it as running.
SendCmd(p, c, after) ==
    /\ regs' = EepWrite(regs, [c.status EXCEPT !.eep_cmd_status = 1],
                        PLX_EEP_STATUS_CONTROL)
    /\ procs' = [procs EXCEPT ![p] =
           [c EXCEPT !.pc = "poll", !.after = after,
                     !.polls_left = PLX_EEP_WAIT_TRIES, !.seen = <<>>,
                     !.cw = "none", !.io = @ \cup {"write", "cmd"}]]

\* One turn of eeprom_wait_for_access_ready: the status command is sent.
ReadySend(p) ==
    /\ procs[p].pc = "ready_send"
    /\ SendCmd(p, [procs[p] EXCEPT !.scmds = @ + 1], "ready_check")
    /\ UNCHANGED <<dev, env>>
    /\ FrameEeprom

\* What the chip does as the command in the register completes.
Complete(r, e, st) ==
    LET s == r[PLX_EEP_STATUS_CONTROL]
        done == [s EXCEPT !.eep_cmd_status = 0]
    IN IF s.eep_cmd = PLX_EEP_CMD_READ_STATUS
       THEN [regs |-> [r EXCEPT ![PLX_EEP_STATUS_CONTROL] =
                          [done EXCEPT !.eep_ready = st[1],
                                       !.eep_write_status = st[2]]],
             env |-> e]
       ELSE IF s.eep_cmd = PLX_EEP_CMD_WRITE_ENABLE
       THEN [regs |-> [r EXCEPT ![PLX_EEP_STATUS_CONTROL] = done],
             env |-> [e EXCEPT !.wel = TRUE]]
       ELSE IF s.eep_cmd = PLX_EEP_CMD_WRITE
       THEN [regs |-> [r EXCEPT ![PLX_EEP_STATUS_CONTROL] = done],
             env |-> [e EXCEPT !.wel = FALSE,
                               !.mem =
                                   IF e.wel /\ s.eep_blk_addr # e.worn
                                   THEN MemStore(e, s.eep_blk_addr,
                                                 r[PLX_EEP_BUFFER])
                                   ELSE @]]
       ELSE [regs |-> [r EXCEPT ![PLX_EEP_STATUS_CONTROL] = done,
                                ![PLX_EEP_BUFFER] = MemWord(e, s.eep_blk_addr)],
             env |-> e]

\* Mutant: the loop polls once more than tries_left allows.
PollAgain_Once_More(tries_left) == tries_left >= 0

\* } while (tries_left);
PollAgain(tries_left) == tries_left # 0

\* One turn of eeprom_wait_for_cmd_complete. A poll that finds the command
\* status clear returns PLX_EEP_STATUS_OK to the caller of eeprom_send_cmd; the
\* last poll that finds it set returns PLX_EEP_TIMEOUT, which every caller
\* hands on up to the unlock label.
Poll(p, busy, st) ==
    /\ procs[p].pc = "poll"
    /\ LET c == procs[p]
       IN IF ~busy
          THEN \E d \in {Complete(regs, env, st)} :
                   /\ regs' = d.regs
                   /\ env' = d.env
                   /\ procs' = [procs EXCEPT ![p] =
                          [c EXCEPT !.seen = Append(@, 0),
                                    !.cw = PLX_EEP_STATUS_OK,
                                    !.pc = c.after]]
          ELSE /\ UNCHANGED <<regs, env>>
               /\ procs' = [procs EXCEPT ![p] =
                      IF PollAgain(c.polls_left - 1)
                      THEN [c EXCEPT !.seen = Append(@, 1),
                                     !.polls_left = @ - 1]
                      ELSE [c EXCEPT !.seen = Append(@, 1),
                                     !.polls_left = @ - 1,
                                     !.cw = PLX_EEP_TIMEOUT,
                                     !.ar = IF c.after = "ready_check"
                                            THEN PLX_EEP_TIMEOUT ELSE @,
                                     !.ret = PLX_EEP_TIMEOUT,
                                     !.pc = "unlock"]]
    /\ UNCHANGED dev
    /\ FrameEeprom

\* eeprom_wait_for_access_ready after its status command: ready, and the
\* access sends its first command (WRITE_ENABLE or READ); busy, and the loop
\* goes on or gives up.
ReadyCheck(p) ==
    /\ procs[p].pc = "ready_check"
    /\ LET c == procs[p]
           status == regs[PLX_EEP_STATUS_CONTROL]
       IN IF status.eep_ready = 0 /\ status.eep_write_status = 0
          THEN SendCmd(p, [c EXCEPT
                      !.rseen = Append(@, "ready"),
                      !.ar = PLX_EEP_STATUS_OK,
                      !.status =
                          IF c.acc = "write32"
                          THEN [status EXCEPT
                                   !.eep_blk_addr = 0,
                                   !.eep_cmd = PLX_EEP_CMD_WRITE_ENABLE]
                          ELSE [status EXCEPT
                                   !.eep_blk_addr = BlkAddr(c.aoff \div 4),
                                   !.eep_cmd = PLX_EEP_CMD_READ]],
                   IF c.acc = "write32" THEN "write_send" ELSE "read_buf")
          ELSE /\ regs' = regs
               /\ procs' = [procs EXCEPT ![p] =
                      IF PollAgain(c.tries_left - 1)
                      THEN [c EXCEPT !.rseen = Append(@, "busy"),
                                     !.status = status,
                                     !.tries_left = @ - 1,
                                     !.pc = "ready_send"]
                      ELSE [c EXCEPT !.rseen = Append(@, "busy"),
                                     !.status = status,
                                     !.tries_left = @ - 1,
                                     !.ar = PLX_EEP_TIMEOUT,
                                     !.ret = PLX_EEP_TIMEOUT,
                                     !.pc = "unlock"]]
    /\ UNCHANGED <<dev, env>>
    /\ FrameEeprom

\* eeprom_write32 after WRITE_ENABLE: the value goes to PLX_EEP_BUFFER and the
\* WRITE command is sent.
WriteSend(p) ==
    /\ procs[p].pc = "write_send"
    /\ LET c == procs[p]
       IN /\ regs' = EepWrite(EepWrite(regs, c.wval, PLX_EEP_BUFFER),
                              [c.status EXCEPT !.eep_blk_addr =
                                                   BlkAddr(c.aoff \div 4),
                                               !.eep_cmd = PLX_EEP_CMD_WRITE,
                                               !.eep_cmd_status = 1],
                              PLX_EEP_STATUS_CONTROL)
          /\ procs' = [procs EXCEPT ![p] =
                 [c EXCEPT !.pc = "poll", !.after = "written",
                           !.status = [c.status EXCEPT
                                          !.eep_blk_addr =
                                              BlkAddr(c.aoff \div 4),
                                          !.eep_cmd = PLX_EEP_CMD_WRITE],
                           !.polls_left = PLX_EEP_WAIT_TRIES, !.seen = <<>>,
                           !.cw = "none",
                           !.written = Noted(env, @, c.offset)]]
    /\ UNCHANGED <<dev, env>>
    /\ FrameEeprom

\* eeprom_write32 has returned PLX_EEP_STATUS_OK: the word, or the word the
\* tail is part of, is read back.
Written(p) ==
    /\ procs[p].pc = "written"
    /\ procs' = [procs EXCEPT ![p] =
           StartAccess(procs[p], regs, "read32",
                       IF procs[p].plan = "word" THEN "verify" ELSE "r16",
                       procs[p].aoff)]
    /\ UNCHANGED <<regs, dev, env>>
    /\ FrameEeprom

\* Mutant: the value read back is not compared with the value written.
VerifyEqual_Unchecked(value, verify_value) == TRUE

\* if (value_32 != verify_value_32) ... goto unlock;
VerifyEqual(value, verify_value) == value = verify_value

\* The half of value_32 that offset names: (u16)(value_32 >> 16) or
\* (u16)value_32.
Half(value_32, offset) ==
    IF offset % 4 # 0 THEN Bytes(value_32, 2, 2) ELSE Bytes(value_32, 0, 2)

\* eeprom_write16's value_32: value_16 in the half that offset names.
Merge(value_16, value_32, offset) ==
    IF offset % 4 # 0 THEN Bytes(value_32, 0, 2) \o value_16
    ELSE value_16 \o Bytes(value_32, 2, 2)

\* eeprom_read32 after its READ command: the value of PLX_EEP_BUFFER goes to
\* the comparison of the word, to eeprom_write16's merge or to the comparison
\* of the tail.
ReadBuf(p) ==
    /\ procs[p].pc = "read_buf"
    /\ LET c == procs[p]
           value_32 == regs[PLX_EEP_BUFFER]
           failed == [c EXCEPT !.ret = PLX_EEP_INTERNAL_ERROR, !.pc = "unlock"]
       IN procs' = [procs EXCEPT ![p] =
              IF c.plan = "verify"
              THEN IF VerifyEqual(c.value, value_32)
                   THEN [c EXCEPT !.verified = Noted(env, @, c.offset),
                                  !.offset = (@ + 4) % Pow2(OffsetBits),
                                  !.pc = "loop"]
                   ELSE failed
              ELSE IF c.plan = "w16_read"
              THEN StartAccess([c EXCEPT !.wval = Merge(c.value, value_32,
                                                         c.offset)],
                               regs, "write32", "w16_write", c.aoff)
              ELSE IF VerifyEqual(c.value, Half(value_32, c.offset))
                   THEN [c EXCEPT !.verified = Noted(env, @, c.offset),
                                  !.pc = "unlock"]
                   ELSE failed]
    /\ UNCHANGED <<regs, dev, env>>
    /\ FrameEeprom

\* unlock: mutex_unlock(&xdev->mmio_lock); return ret;
UpdateUnlock(p) ==
    /\ procs[p].pc = "unlock"
    /\ dev' = [dev EXCEPT !.mmio_lock = 0]
    /\ procs' = [procs EXCEPT ![p].pc = "done"]
    /\ UNCHANGED <<regs, env>>
    /\ FrameEeprom

\* The call has returned; its caller goes on.
UpdateReturn(p) ==
    /\ procs[p].pc = "done"
    /\ procs' = [procs EXCEPT ![p] = NoEepCall]
    /\ UNCHANGED <<regs, dev, env>>
    /\ FrameEeprom

\* Another user of the device's registers takes mmio_lock ...
OtherLock(p) ==
    /\ procs[p].pc = "idle"
    /\ MutexAcquires(dev.mmio_lock)
    /\ dev' = [dev EXCEPT !.mmio_lock = 1]
    /\ procs' = [procs EXCEPT ![p].pc = "hold"]
    /\ UNCHANGED <<regs, env>>
    /\ FrameEeprom

\* ... and releases it.
OtherUnlock(p) ==
    /\ procs[p].pc = "hold"
    /\ dev' = [dev EXCEPT !.mmio_lock = 0]
    /\ procs' = [procs EXCEPT ![p].pc = "idle"]
    /\ UNCHANGED <<regs, env>>
    /\ FrameEeprom

\* The steps of a call of plx_update_eeprom.
UpdateStep(p) ==
    \/ UpdateLock(p) \/ UpdateAddr(p) \/ LoopHead(p)
    \/ ReadySend(p) \/ ReadyCheck(p)
    \/ \E busy \in BOOLEAN, st \in ReadyStates : Poll(p, busy, st)
    \/ WriteSend(p) \/ Written(p) \/ ReadBuf(p)
    \/ UpdateUnlock(p) \/ UpdateReturn(p)

NextEeprom ==
    \/ \E img \in Images : UpdateCall("p", img)
    \/ UpdateStep("p")
    \/ OtherLock("q")
    \/ OtherUnlock("q")

SpecEeprom == InitEeprom /\ [][NextEeprom]_vars

\* A caller inside plx_update_eeprom that can take a step takes one: the
\* waits of the loops are sleeps that end (usleep_range).
SpecEepromLive == SpecEeprom /\ WF_vars(UpdateStep("p"))

(* ------------------------------------------------------------------ *)
(* plx_update_eeprom over images of any accepted length, on a blank    *)
(* EEPROM of 2^EepBlkAddrBits blocks: of an image are kept what        *)
(* eeprom_validate and the loop's control read, its length, the        *)
(* configuration_size of its header, whether signature and CRC are     *)
(* right, and the bytes of its CRC; its data are zeros. The steps of   *)
(* the call are those of SpecEeprom.                                   *)
(* ------------------------------------------------------------------ *)

\* An image of n bytes with the right signature and CRC:
\* configuration_size is an unsigned short, it holds the low 16 bits of
\* the length of the configuration. The CRC of a long image is not
\* computed: crc stands for its four bytes and crc_ok for the verdict of
\* eeprom_check_crc on them.
ImageOfSize(n) ==
    [size |-> n,
     configuration_size |->
         (n - PLX_EEP_HEADER_LENGTH_BYTE - PLX_EEP_CRC_LENGTH_BYTE) % Pow2(16),
     signature |-> PLX_EEP_VALIDATION_HEADER,
     crc |-> <<1, 2, 3, 4>>,
     crc_ok |-> TRUE]

\* The lengths of the images: short ones, and the ones around the largest
\* configuration_size.
ImageSizes == {8, 12, 14, 20, 65534, 65536, 65540, 65546, 65550}

SizedImages ==
    {ImageOfSize(n) : n \in ImageSizes}
        \cup {[ImageOfSize(65540) EXCEPT !.crc_ok = FALSE]}

\* eeprom_validate, on what it reads of the image.
eeprom_validate_header(h, eeprom_size) ==
    IF eeprom_size <= PLX_EEP_HEADER_LENGTH_BYTE + PLX_EEP_CRC_LENGTH_BYTE
    THEN PLX_EEP_INTERNAL_ERROR
    ELSE IF h.configuration_size % PLX_EEP_CONFIGURATION_ALIGNMENT_BYTE # 0
    THEN PLX_EEP_INTERNAL_ERROR
    ELSE IF eeprom_size - PLX_EEP_HEADER_LENGTH_BYTE - PLX_EEP_CRC_LENGTH_BYTE
                # h.configuration_size
    THEN PLX_EEP_INTERNAL_ERROR
    ELSE IF h.signature # PLX_EEP_VALIDATION_HEADER
    THEN PLX_EEP_INTERNAL_ERROR
    ELSE IF h.crc_ok THEN PLX_EEP_STATUS_OK ELSE PLX_EEP_INTERNAL_ERROR

\* A blank EEPROM, without worn blocks or with block 0 worn.
BlankMem == [img |-> ImageOfSize(0), upto |-> 0, exact |-> TRUE]

NoWornBlock == 0 - 1

InitSized ==
    /\ dev = [mmio_lock |-> 0]
    /\ \E worn \in {0, NoWornBlock} :
           env = [mem |-> BlankMem, wel |-> FALSE, worn |-> worn, sized |-> TRUE]
    /\ regs = [o \in {PLX_EEP_STATUS_CONTROL, PLX_EEP_BUFFER,
                      PLX_EEP_ADDRESS_BYTE} |->
                  IF o = PLX_EEP_STATUS_CONTROL THEN NoStatus
                  ELSE IF o = PLX_EEP_BUFFER THEN <<0, 0, 0, 0>>
                  ELSE 2]
    /\ procs = [p \in Procs |-> NoEepCall]
    /\ segment_size = 0
    /\ segments_num = 0
    /\ a_lut_array_base = 0
    /\ aper_len = 0
    /\ entries = plx_alm_reset(0)
    /\ alm_lock = 0
    /\ last = NoCall
    /\ log = <<>>
    /\ pre = entries
    /\ hist = [i \in {} |-> NoWindow]
    /\ rt = NoRoundTrip
    /\ idx = 0
    /\ off = 0
    /\ script = <<>>
    /\ watch = NoWatch

\* plx_update_eeprom up to mutex_lock(&xdev->mmio_lock), or to its return.
\* The EEPROM is blank when the call is made.
SizedCall(p, h) ==
    /\ procs[p].pc = "idle"
    /\ env.mem.upto = 0
    /\ LET ret == eeprom_validate_header(h, h.size)
       IN  /\ procs' = [procs EXCEPT ![p] =
                  [NoEepCall EXCEPT !.img = h, !.ret = ret,
                                    !.pc = UpdateEntry(ret)]]
           /\ env' = IF ret = PLX_EEP_STATUS_OK
                     THEN [env EXCEPT !.mem = [BlankMem EXCEPT !.img = h]]
                     ELSE env
    /\ UNCHANGED <<regs, dev>>
    /\ FrameEeprom

NextSized ==
    \/ \E h \in SizedImages : SizedCall("p", h)
    \/ UpdateStep("p")

SpecEepromSized == InitSized /\ [][NextSized]_vars

(* ------------------------------------------------------------------ *)
(* plx_ioremap, plx_iounmap and plx_read_dma_mapped_mem, beside other   *)
(* users of the table. A read is three steps: alm_lock is free between  *)
(* its plx_ioremap, its copy and its plx_iounmap. Pointers are numbers: *)
(* xdev->aper.va is AperVa and NULL is 0.                               *)
(* ------------------------------------------------------------------ *)

\* xdev->aper.va, the kernel address of the mapped aperture.
AperVa == 4096

\* xdev->a_lut as plx_hw_init sets it: the side that is not the peer's.
ALut(side, link_side) == ~ALutPeer(side, link_side)

\* min(dma_size_read, out_buf_size - 1)
MinOf(a, b) == IF a < b THEN a ELSE b

\* plx_ioremap after plx_add_a_lut_entry returned r: NULL on an error, else
\* xdev->aper.va + pa_out.
IoremapAfterMap(r) ==
    [h |-> r.h, entries |-> r.entries,
     mem |-> IF r.ret # 0 THEN 0 ELSE AperVa + r.addr_out,
     segment_id |-> r.segment_id, segments_num |-> r.segments_num,
     err |-> r.err]

\* plx_ioremap: mem is the pointer returned.
plx_ioremap(h0, e, a_lut, pa, len, segsize) ==
    IF a_lut
    THEN IoremapAfterMap(plx_add_a_lut_entry(h0, e, pa, len, segsize))
    ELSE [h |-> h0, entries |-> e, mem |-> AperVa + pa,
          segment_id |-> 0, segments_num |-> 0, err |-> 0]

\* plx_iounmap after plx_del_a_lut_entry returned r.
IounmapAfterDel(r) == [h |-> r.h, entries |-> r.entries]

\* plx_iounmap: pa = va - xdev->aper.va; if (xdev->a_lut) plx_del_a_lut_entry.
plx_iounmap(h0, e, a_lut, va, n, segsize) ==
    IF a_lut
    THEN IounmapAfterDel(plx_del_a_lut_entry(h0, e, va - AperVa, n, segsize))
    ELSE [h |-> h0, entries |-> e]

\* What the hardware makes of window address w: the remap address of the
\* entry w falls in plus the offset in the segment, when the entry is
\* enabled (section 2; remap addresses here are below 2^32).
HwTranslate(w) ==
    LET i == w \div segment_size
    IN  IF i \in Segs /\ regs[PermOff(i)] = PermRW /\ regs[HigherOff(i)] = 0
        THEN regs[LowerOff(i)] + (w % segment_size)
        ELSE NoAddr

\* The references a step took: per segment, the counter after it less the
\* counter before it.
RefsTaken(before, after) ==
    [i \in DOMAIN before |-> after[i].counter - before[i].counter]

\* memcpy_fromio reads what is asked for: every byte of [mem, mem + size) is
\* translated to the byte of [dma_addr, dma_addr + size) it stands for. On
\* the side without the table the aperture is mapped straight through.
WindowIntact(a_lut, mem, dma_addr, size) ==
    a_lut => \A k \in 0 .. (size - 1) :
                 HwTranslate(mem - AperVa + k) = dma_addr + k

\* count = strnlen(out_buf, size): the length of the remote string when
\* the copy read it; what a copy through an entry that is disabled or
\* points elsewhere reads is not fixed by the code.
CopiedLengths(intact, count, size) ==
    IF intact THEN {MinOf(count, size)} ELSE 0 .. size

\* The record of a call of plx_read_dma_mapped_mem that returned: taken and
\* released are the references its plx_ioremap took and its plx_iounmap
\* released.
ReadReturn(dma_addr, size, ret, mem, m, taken, released) ==
    [op |-> "read_dma", addr |-> dma_addr, size |-> size, ret |-> ret,
     addr_out |-> IF mem = 0 THEN NoAddr ELSE mem - AperVa,
     err |-> m.err, segment_id |-> m.segment_id, start |-> m.segment_id,
     segments_num |-> m.segments_num, taken |-> taken, released |-> released]

\* No call of plx_ioremap was made.
NoMap == [err |-> 0, segment_id |-> 0, segments_num |-> 0, entries |-> <<>>]

\* The port of Init, on the side that has the table or on the other one.
InitDma ==
    /\ segment_size = Pow2(SegShift)
    /\ segments_num = NumSegs
    /\ aper_len = NumSegs * Pow2(SegShift)
    /\ a_lut_array_base = ArrayBase(2, 0, 0)
    /\ entries = plx_alm_reset(NumSegs)
    /\ regs = [o \in RegOffsets(a_lut_array_base, NumSegs) |-> 0]
    /\ alm_lock = 0
    /\ last = NoCall
    /\ log = <<>>
    /\ pre = entries
    /\ hist = [i \in 0 .. (NumSegs - 1) |-> NoWindow]
    /\ rt = NoRoundTrip
    /\ idx = 0
    /\ off = 0
    /\ procs = [p \in Procs |-> Idle]
    /\ script = <<>>
    /\ watch = NoWatch
    /\ \E side \in AlutSides :
           dev = [attached |-> TRUE, link_side |-> 0,
                  a_lut_peer |-> ALutPeer(side, 0), reg_base |-> 0,
                  a_lut |-> ALut(side, 0)]
    /\ env = NoEnv

\* Another user of the port maps a range through plx_ioremap ...
IoremapCall(pa, len) ==
    /\ alm_lock = 0
    /\ \E m \in {plx_ioremap([regs |-> regs, log |-> <<>>, lock |-> alm_lock],
                             entries, dev.a_lut, pa, len, segment_size)} :
           /\ \A i \in DOMAIN m.entries : m.entries[i].counter <= MaxRef
           /\ entries' = m.entries
           /\ regs' = m.h.regs
           /\ alm_lock' = m.h.lock
           /\ log' = m.h.log
           /\ last' = [op |-> "ioremap", addr |-> pa, size |-> len,
                       ret |-> m.mem,
                       addr_out |-> IF m.mem = 0 THEN NoAddr ELSE m.mem - AperVa,
                       err |-> m.err, segment_id |-> m.segment_id,
                       start |-> m.segment_id, segments_num |-> m.segments_num]
    /\ pre' = entries
    /\ UNCHANGED <<segment_size, segments_num, a_lut_array_base, aper_len, dev,
                   env, idx, off, procs, hist, rt, script, watch>>

\* ... or unmaps one through plx_iounmap.
IounmapCall(va) ==
    /\ alm_lock = 0
    /\ \E u \in {plx_iounmap([regs |-> regs, log |-> <<>>, lock |-> alm_lock],
                             entries, dev.a_lut, va, segments_num,
                             segment_size)} :
           /\ entries' = u.entries
           /\ regs' = u.h.regs
           /\ alm_lock' = u.h.lock
           /\ log' = u.h.log
    /\ last' = [NoCall EXCEPT !.op = "iounmap", !.addr = va - AperVa]
    /\ pre' = entries
    /\ UNCHANGED <<segment_size, segments_num, a_lut_array_base, aper_len, dev,
                   env, idx, off, procs, hist, rt, script, watch>>

\* What the steps of a read leave alone.
FrameDma ==
    /\ pre' = entries
    /\ UNCHANGED <<segment_size, segments_num, a_lut_array_base, aper_len, dev,
                   env, idx, off, hist, rt, script, watch>>

\* plx_read_dma_mapped_mem up to the return of plx_ioremap (lines 1777-1795):
\* size = min(dma_size_read, out_buf_size - 1); an empty buffer returns 0
\* before plx_ioremap, a NULL pointer returns 0 after it. The remote string
\* has count characters.
ReadDma(p, dma_addr, dma_size_read, out_buf_size, count) ==
    /\ procs[p].pc = "idle"
    /\ alm_lock = 0
    /\ LET size == MinOf(dma_size_read, out_buf_size - 1)
       IN  IF out_buf_size = 0
           THEN /\ last' = ReadReturn(dma_addr, size, 0, 0, NoMap,
                                      RefsTaken(entries, entries),
                                      RefsTaken(entries, entries))
                /\ log' = <<>>
                /\ UNCHANGED <<entries, regs, alm_lock, procs>>
           ELSE \E m \in {plx_ioremap([regs |-> regs, log |-> <<>>, lock |-> alm_lock],
                                      entries, dev.a_lut, dma_addr, size,
                                      segment_size)} :
                    /\ \A i \in DOMAIN m.entries : m.entries[i].counter <= MaxRef
                    /\ entries' = m.entries
                    /\ regs' = m.h.regs
                    /\ alm_lock' = m.h.lock
                    /\ IF m.mem = 0
                       THEN /\ last' = ReadReturn(dma_addr, size, 0, 0, m,
                                                  RefsTaken(entries, m.entries),
                                                  RefsTaken(entries, entries))
                            /\ log' = m.h.log
                            /\ UNCHANGED procs
                       ELSE /\ procs' = [procs EXCEPT ![p] =
                                   [pc |-> "copy", op |-> "read_dma",
                                    addr |-> dma_addr, size |-> size,
                                    i |-> count, a |-> m.mem,
                                    r |-> [err |-> m.err,
                                           segment_id |-> m.segment_id,
                                           segments_num |-> m.segments_num,
                                           entries |-> <<>>],
                                    log |-> m.h.log, ret |-> 0,
                                    taken |-> RefsTaken(entries, m.entries)]]
                            /\ last' = NoCall
                            /\ log' = <<>>
    /\ FrameDma

\* memcpy_fromio(out_buf, mem, size); out_buf[size] = 0;
\* count = strnlen(out_buf, size): no lock is held (lines 1797-1799).
ReadCopy(p) ==
    /\ procs[p].pc = "copy"
    /\ \E c \in CopiedLengths(WindowIntact(dev.a_lut, procs[p].a, procs[p].addr,
                                           procs[p].size),
                              procs[p].i, procs[p].size) :
           procs' = [procs EXCEPT ![p].pc = "unmap", ![p].ret = c,
                                  ![p].log = Append(@, Ev("copy", procs[p].a,
                                                          procs[p].size))]
    /\ last' = NoCall
    /\ log' = <<>>
    /\ UNCHANGED <<entries, regs, alm_lock>>
    /\ FrameDma

\* plx_iounmap(xdev, mem); return count; (lines 1801-1803).
ReadUnmap(p) ==
    /\ procs[p].pc = "unmap"
    /\ alm_lock = 0
    /\ \E u \in {plx_iounmap([regs |-> regs, log |-> <<>>, lock |-> alm_lock],
                             entries, dev.a_lut, procs[p].a, segments_num,
                             segment_size)} :
           /\ entries' = u.entries
           /\ regs' = u.h.regs
           /\ alm_lock' = u.h.lock
           /\ log' = procs[p].log \o u.h.log
           /\ last' = ReadReturn(procs[p].addr, procs[p].size, procs[p].ret,
                                 procs[p].a, procs[p].r, procs[p].taken,
                                 RefsTaken(u.entries, entries))
    /\ procs' = [procs EXCEPT ![p] = Idle]
    /\ FrameDma

\* The reads: a string of two characters from a segment boundary, an empty
\* string from inside a segment, and a read into an empty buffer. Each range
\* handed to plx_ioremap spans at least one segment.
DmaReads ==
    { [dma_addr |-> 0, dma_size_read |-> 2, out_buf_size |-> MaxSize + 1],
      [dma_addr |-> 1, dma_size_read |-> 0, out_buf_size |-> 1],
      [dma_addr |-> 0, dma_size_read |-> 1, out_buf_size |-> 0] }

\* The caller whose read is followed step by step. The reads of other
\* callers act on the table through their plx_ioremap and plx_iounmap, which
\* are among the calls of the other users.
DmaCallers == {"p"}

NextDma ==
    \/ \E addr \in 0 .. MaxAddr, size \in 1 .. MaxSize : IoremapCall(addr, size)
    \/ \E pa \in 0 .. (segments_num * segment_size + 1) :
           IounmapCall(AperVa + pa)
    \/ \E p \in DmaCallers :
           \/ \E c \in DmaReads :
                  ReadDma(p, c.dma_addr, c.dma_size_read, c.out_buf_size,
                          c.dma_size_read)
           \/ ReadCopy(p)
           \/ ReadUnmap(p)

SpecDma == InitDma /\ [][NextDma]_vars

(* ------------------------------------------------------------------ *)
(* Properties                                                          *)
(* ------------------------------------------------------------------ *)

Counters(e) == [i \in DOMAIN e |-> e[i].counter]

Allocated(e) == { i \in DOMAIN e : e[i].counter > 0 }

HasWrite(l) == \E j \in 1 .. Len(l) : l[j].k = "write"

HasLock(l) == \E j \in 1 .. Len(l) : l[j].k = "lock"

\* C1, for the ranges that span at least one segment: a successful map
\* followed at once by the unmap of the address it returned leaves every
\* segment's reference count (hence its FREE/ALLOCATED status) as it was
\* before the map. A range of size 0 at a segment boundary spans no segment:
\* what plx_alm_add_entry answers for it is in plx_alm.c, and the round trip
\* of such a range is left open.
C1_MapUnmapRoundTrip ==
    rt.hit => Counters(entries) = Counters(rt.before)

\* C1 witness: a round trip that allocated and freed a run of two segments
\* beside another allocated run.
C1_Witness ==
    /\ rt.hit
    /\ last.op = "unmap" /\ last.segments_num = 2
    /\ Allocated(entries) # {}

\* The masked range of a call: its base and the segments it spans.
RangeBase(l) == AndNot(l.addr, segment_size - 1)

RangeSegs(l) == SegmentsNeeded(l.addr, l.size, segment_size)

\* The windows callers hold on the masked range of call l.
WindowsOf(l) ==
    { s \in Segs : hist[s].out >= 1 /\ hist[s].base = RangeBase(l)
                                     /\ hist[s].n = RangeSegs(l) }

\* C2 as stated: two maps in a row of ranges that mask to the same run
\* return the identical translated address.
C2_SameAddressAsStated ==
    [][ ( /\ last.op = "map" /\ last.ret = 0
          /\ last'.op = "map" /\ last'.ret = 0
          /\ RangeBase(last') = RangeBase(last)
          /\ RangeSegs(last') = RangeSegs(last) )
        => last'.addr_out = last.addr_out ]_vars

\* C2 amended: every successful map of a range that masks to a run callers
\* hold returns that run's window start (the segment the first map of the
\* run returned, times segment_size) plus its own addr mod segment_size: the
\* maps of one run agree on the window, and return the identical address
\* exactly when their start addresses have the same offset in the segment.
C2_SameWindow ==
    (last.op = "map" /\ last.ret = 0) =>
        /\ WindowsOf(last) # {}
        /\ \A s \in WindowsOf(last) :
               last.addr_out = s * segment_size + (last.addr % segment_size)

\* C2 witness: a repeated map of a held run, from an address that is not
\* segment aligned.
C2_Witness ==
    /\ last.op = "map" /\ last.err = 0 - EEXIST
    /\ last.addr % segment_size # 0
    /\ \E s \in WindowsOf(last) : hist[s].out = 2

\* C3: the reference count of a run equals the number of maps of it that
\* are outstanding (k after k maps and no unmap), each of its entries was
\* programmed exactly once, by the map that allocated the run, and a map on
\* the already-exists path writes no register.
C3_RefCountAndProgrammedOnce ==
    /\ \A s \in Segs :
           hist[s].out >= 1 =>
               /\ \A i \in s .. (s + hist[s].n - 1) :
                      /\ i \in Segs
                      /\ entries[i].counter = hist[s].out
                      /\ regs[PermOff(i)] = PermRW
               /\ hist[s].progs = hist[s].n
    /\ (last.op = "map" /\ last.err = 0 - EEXIST) => ~HasWrite(log)

\* C3 witness: the second map of a run of two segments.
C3_Witness ==
    /\ last.op = "map" /\ last.err = 0 - EEXIST
    /\ \E s \in Segs : hist[s].out = 2 /\ hist[s].n = 2 /\ hist[s].progs = 2

\* C4: an unmap of a run whose reference count is above 1 writes no
\* register; every register an unmap writes is the permission field of a
\* segment of the run it took from reference count 1 to 0, written to zero.
C4_ClearOnlyOnLastUnmap ==
    (last.op = "unmap" /\ last.ret = 0) =>
        /\ pre[last.segment_id].counter > 1 => ~HasWrite(log)
        /\ \A j \in 1 .. Len(log) :
               log[j].k = "write" =>
                   /\ log[j].val = 0
                   /\ \E i \in Segs :
                          /\ log[j].off = PermOff(i)
                          /\ pre[i].counter = 1
                          /\ entries[i].counter = 0
                          /\ pre[i].start = pre[last.segment_id].start

\* C4 witness: an unmap that took a run from reference count 2 to 1.
C4_Witness ==
    /\ last.op = "unmap" /\ last.ret = 0
    /\ pre[last.segment_id].counter = 2
    /\ entries[last.segment_id].counter = 1

\* The allocated runs of e that cover exactly the masked range of call l.
RunsMatching(e, l) ==
    { s \in DOMAIN e : /\ e[s].counter > 0
                       /\ e[s].value = RangeBase(l)
                       /\ e[s].count = RangeSegs(l) }

\* C5: with every segment allocated, a map of a range that matches no
\* existing run fails: plx_add_a_lut_entry returns -ENOMEM and stores no
\* translated address.
C5_ExhaustionIsENOMEM ==
    ( /\ last.op = "map"
      /\ Allocated(pre) = DOMAIN pre
      /\ RunsMatching(pre, last) = {} )
    => (last.ret = 0 - ENOMEM /\ last.addr_out = NoAddr)

\* C5 witness: the table is full of runs of one segment each, and a map of
\* a new range was refused.
C5_Witness ==
    /\ last.op = "map" /\ last.ret = 0 - ENOMEM
    /\ \A i \in DOMAIN pre : pre[i].counter > 0 /\ pre[i].count = 1

\* C6: a map that fails writes no register, changes no segment's status or
\* reference count, and has released the lock: its only events are the
\* lock and the unlock.
C6_FailedMapChangesNothing ==
    (last.op = "map" /\ last.ret # 0) =>
        /\ ~HasWrite(log)
        /\ entries = pre
        /\ alm_lock = 0
        /\ log = << Ev("lock", 0, 0), Ev("unlock", 0, 0) >>

\* C6 witness: a map refused for want of a contiguous run, with free
\* segments and programmed entries in the table.
C6_Witness ==
    /\ last.op = "map" /\ last.ret = 0 - ENOMEM
    /\ Allocated(pre) # DOMAIN pre
    /\ \E i \in Segs : regs[PermOff(i)] = PermRW

\* C7: an unmap of an address at or past segments_num * segment_size is
\* rejected: no reference count changes, no segment is freed, no register
\* is written and the lock is not taken.
C7_OutOfRangeUnmapIsNoOp ==
    (last.op = "unmap" /\ last.addr >= segments_num * segment_size) =>
        /\ log = <<>>
        /\ entries = pre
        /\ last.segments_num = 0
        /\ alm_lock = 0

\* C7 witness: unmap of the address one past the end, with runs allocated.
C7_Witness ==
    /\ last.op = "unmap" /\ last.addr = segments_num * segment_size
    /\ Allocated(entries) # {}

\* C8: a map that allocates a run at segment s returns
\* s * segment_size + (addr mod segment_size) and programs entry s+j with
\* the masked address + j * segment_size and read+write permission, so that
\* every byte a of [addr, addr+size) is reached at translated + (a - addr).
C8_NewRunProgrammed ==
    (last.op = "map" /\ last.ret = 0 /\ last.err = 0) =>
        LET s == last.segment_id
            n == last.segments_num
            m == last.addr - (last.addr % segment_size)
        IN  /\ n >= 1
            /\ last.addr_out = s * segment_size + (last.addr % segment_size)
            /\ \A j \in 0 .. (n - 1) :
                   /\ regs[HigherOff(s + j)] = Hi32(m + j * segment_size)
                   /\ regs[LowerOff(s + j)] = Lo32(m + j * segment_size)
                   /\ regs[PermOff(s + j)] = PermRW
            /\ \A a \in last.addr .. (last.addr + last.size - 1) :
                   HwTranslate(last.addr_out + (a - last.addr)) = a

\* C8 witness: a new run of two segments, not at segment 0, for a range that
\* starts inside a segment.
C8_Witness ==
    /\ last.op = "map" /\ last.ret = 0 /\ last.err = 0
    /\ last.segments_num = 2 /\ last.segment_id > 0
    /\ last.addr % segment_size # 0

\* C9: plx_get_a_lut_entry_offset follows the two-array layout and no other
\* index of the table has the offset of idx.
C9_EntryOffsetInjective ==
    /\ off = IF idx < PLX_A_LUT_MAX_ARRAY
             THEN idx * SIZEOF_U32
             ELSE PLX_A_LUT_ARRAY_OFFSET + (idx % PLX_A_LUT_MAX_ARRAY) * SIZEOF_U32
    /\ \A j \in Segs : j # idx => plx_get_a_lut_entry_offset(j) # off

\* C9 witness: an index of the second array.
C9_Witness ==
    /\ segments_num = TableCapacity
    /\ idx = PLX_A_LUT_MAX_ARRAY + 1
    /\ off = PLX_A_LUT_ARRAY_OFFSET + SIZEOF_U32

\* C10: every reference count is a natural number (0 = FREE, >= 1 =
\* ALLOCATED); a call changes a segment's count only FREE->1 (map, new run),
\* n->n+1 (map, already exists), n->n-1 for n > 1 (unmap) or 1->FREE (last
\* unmap); the segments of one run carry the same count.
C10_SegmentStateMachine ==
    /\ \A i \in Segs :
           LET a == pre[i].counter
               b == entries[i].counter
           IN  /\ b \in Nat
               /\ \/ a = b
                  \/ a = 0 /\ b = 1 /\ last.op = "map" /\ last.err = 0
                  \/ a >= 1 /\ b = a + 1 /\ last.op = "map" /\ last.err = 0 - EEXIST
                  \/ a > 1 /\ b = a - 1 /\ last.op = "unmap"
                  \/ a = 1 /\ b = 0 /\ last.op = "unmap"
    /\ \A i \in Allocated(entries) :
           LET s == entries[i].start
           IN  /\ i \in RunSegs(entries, s)
               /\ \A j \in RunSegs(entries, s) :
                      /\ j \in Segs
                      /\ entries[j].start = s
                      /\ entries[j].counter = entries[i].counter

\* C10 witness: an unmap took both segments of a run from 2 to 1.
C10_Witness ==
    /\ last.op = "unmap"
    /\ \E i \in Segs : /\ (i + 1) \in Segs
                       /\ entries[i].start = i /\ entries[i].count = 2
                       /\ pre[i].counter = 2 /\ pre[i + 1].counter = 2
                       /\ entries[i].counter = 1 /\ entries[i + 1].counter = 1

\* The starts at which a run of n segments fits in the free segments of e.
FitsAt(e, n) ==
    { s \in DOMAIN e : /\ s + n <= segments_num
                       /\ \A i \in s .. (s + n - 1) : e[i].counter = 0 }

\* C15: a map of a range no allocated run matches is given the run of n
\* segments at the lowest start s with s..s+n-1 all FREE and
\* s + n <= segments_num, and is refused for want of space exactly when no
\* such s exists, however many segments are free.
C15_FirstFit ==
    (last.op = "map" /\ RunsMatching(pre, last) = {}) =>
        LET n    == RangeSegs(last)
            fits == FitsAt(pre, n)
        IN  /\ (fits = {}) <=> (last.err = ALM_NO_SPACE)
            /\ (fits = {}) <=> (last.ret = 0 - ENOMEM)
            /\ fits # {} =>
                   /\ last.err = 0
                   /\ last.segment_id \in fits
                   /\ \A s \in fits : last.segment_id <= s
                   /\ last.segments_num = n
                   /\ \A i \in Segs :
                          IF i \in last.segment_id .. (last.segment_id + n - 1)
                          THEN entries[i].counter = 1 /\ entries[i].start = last.segment_id
                          ELSE entries[i] = pre[i]

\* C15 witness: a run of two segments was refused although two segments were
\* free, on either side of an allocated one.
C15_Witness ==
    /\ last.op = "map" /\ last.ret = 0 - ENOMEM
    /\ RangeSegs(last) = 2
    /\ Cardinality(DOMAIN pre \ Allocated(pre)) = 2
    /\ FitsAt(pre, 1) # {}

\* C16: a map takes the already-exists path exactly when an allocated run
\* has the masked base and the segment count of the request; then it adds
\* one to the count of that run's segments and to nothing else. Any other
\* request (overlapping a run, or of another length from the same base)
\* leaves the count of every allocated segment as it was.
C16_ExistsIffSameBaseAndCount ==
    (last.op = "map") =>
        LET same == { i \in Segs : /\ pre[i].counter > 0
                                   /\ pre[i].value = last.addr - (last.addr % segment_size)
                                   /\ pre[i].count = RangeSegs(last) }
        IN  /\ (last.err = 0 - EEXIST) <=> (same # {})
            /\ last.err = 0 - EEXIST =>
                   /\ last.segment_id \in same
                   /\ \A i \in Segs :
                          entries[i].counter =
                              pre[i].counter
                                + (IF i \in same /\ pre[i].start = last.segment_id
                                   THEN 1 ELSE 0)
            /\ last.err # 0 - EEXIST =>
                   \A i \in Allocated(pre) : entries[i] = pre[i]

\* C16 witness: a request from the base of an allocated run, of another
\* length, was given a fresh run.
C16_Witness ==
    /\ last.op = "map" /\ last.err = 0
    /\ \E i \in Allocated(pre) :
           /\ pre[i].value = RangeBase(last)
           /\ pre[i].count # RangeSegs(last)
           /\ i \notin last.segment_id .. (last.segment_id + last.segments_num - 1)

\* The positions of the log at which event ev was recorded.
PosOf(l, ev) == { j \in 1 .. Len(l) : l[j] = ev }

\* The remap address map programs in entry i of the run it allocated.
RemapOf(l, i) == (l.addr - (l.addr % segment_size))
                     + (i - l.segment_id) * segment_size

\* The entries a map programmed.
ProgrammedBy(l) ==
    IF l.op = "map" /\ l.ret = 0 /\ l.err = 0
    THEN l.segment_id .. (l.segment_id + l.segments_num - 1)
    ELSE {}

\* C17 as stated: for every entry a map programs, a write barrier is
\* issued between the write of the high 32 bits and the write of the low 32
\* bits.
C17_BarrierBetweenRemapWrites ==
    \A i \in ProgrammedBy(last) :
        \E a \in PosOf(log, Ev("write", HigherOff(i), Hi32(RemapOf(last, i)))),
           b \in PosOf(log, Ev("write", LowerOff(i), Lo32(RemapOf(last, i)))) :
            /\ a < b
            /\ \E c \in PosOf(log, Ev("wmb", 0, 0)) : a < c /\ c < b

\* C17 amended: for every entry a map programs it writes the high 32 bits,
\* then the low 32 bits, then issues a write barrier, then writes the
\* permission: the barrier stands between the two remap writes and the
\* permission write, none is issued between the high and the low write, and
\* each field is written once.
C17_BarrierBeforePermission ==
    \A i \in ProgrammedBy(last) :
        LET hi == PosOf(log, Ev("write", HigherOff(i), Hi32(RemapOf(last, i))))
            lo == PosOf(log, Ev("write", LowerOff(i), Lo32(RemapOf(last, i))))
            pm == PosOf(log, Ev("write", PermOff(i), PermRW))
        IN  /\ Cardinality(hi) = 1 /\ Cardinality(lo) = 1 /\ Cardinality(pm) = 1
            /\ \A a \in hi, b \in lo, d \in pm :
                   /\ b = a + 1
                   /\ log[b + 1] = Ev("wmb", 0, 0)
                   /\ d = b + 2

\* C17 witness: a map programmed a run of two entries.
C17_Witness ==
    /\ Cardinality(ProgrammedBy(last)) = 2
    /\ Cardinality(PosOf(log, Ev("wmb", 0, 0))) = 2

\* C18: a map that programs at least one entry issues a full barrier and
\* then reads the permission register it wrote last, after all its register
\* writes and before it releases the lock; a map on the already-exists path
\* issues no barrier and reads no register.
C18_ReadBackAfterProgramming ==
    /\ ProgrammedBy(last) # {} =>
           LET m == PosOf(log, Ev("mb", 0, 0))
               w == { j \in 1 .. Len(log) : log[j].k = "write" }
               r == { j \in 1 .. Len(log) : log[j].k = "read" }
               u == PosOf(log, Ev("unlock", 0, 0))
           IN  /\ Cardinality(m) = 1 /\ Cardinality(r) = 1 /\ Cardinality(u) = 1
               /\ \A jm \in m, jr \in r, ju \in u :
                      /\ \A jw \in w : jw < jm
                      /\ jr = jm + 1
                      /\ ju = jr + 1
                      /\ ju = Len(log)
                      /\ log[jm - 1].k = "write"
                      /\ log[jr].off = log[jm - 1].off
                      /\ log[jr].off =
                             PermOff(last.segment_id + last.segments_num - 1)
    /\ (last.op = "map" /\ last.err = 0 - EEXIST) =>
           \A j \in 1 .. Len(log) : log[j].k \notin {"read", "mb", "write", "wmb"}

\* C18 witness: the read-back after a run of two entries, the second of them
\* read.
C18_Witness ==
    /\ last.op = "map" /\ last.err = 0 /\ last.segments_num = 2
    /\ PosOf(log, Ev("read", PermOff(last.segment_id + 1), 0)) # {}

\* The segments an unmap freed.
FreedBy(l) ==
    IF l.op = "unmap" /\ l.ret = 0 /\ l.segments_num > 0
    THEN l.start .. (l.start + l.segments_num - 1)
    ELSE {}

\* C19: an unmap that frees a run writes zero to the permission field of
\* each freed segment, once, and writes nothing else: the remap fields of
\* the freed entries keep the address they were programmed with and the
\* entries of the other allocated runs stay enabled.
C19_UnmapClearsPermissionOnly ==
    (FreedBy(last) # {}) =>
        /\ \A j \in 1 .. Len(log) :
               log[j].k = "write" =>
                   \E i \in FreedBy(last) : log[j] = Ev("write", PermOff(i), 0)
        /\ \A i \in FreedBy(last) :
               /\ Cardinality(PosOf(log, Ev("write", PermOff(i), 0))) = 1
               /\ regs[PermOff(i)] = 0
               /\ regs[HigherOff(i)] = Hi32(pre[i].value + (i - last.start) * segment_size)
               /\ regs[LowerOff(i)] = Lo32(pre[i].value + (i - last.start) * segment_size)
               /\ pre[i].counter = 1 /\ pre[i].start = last.start
        /\ \A i \in Segs \ FreedBy(last) :
               /\ entries[i] = pre[i]
               /\ pre[i].counter > 0 =>
                      /\ regs[PermOff(i)] = PermRW
                      /\ regs[LowerOff(i)] =
                             Lo32(pre[i].value + (i - pre[i].start) * segment_size)

\* C19 witness: an unmap freed a run of two segments that was programmed
\* with a non-zero address, beside an allocated run.
C19_Witness ==
    /\ Cardinality(FreedBy(last)) = 2
    /\ \A i \in FreedBy(last) : regs[LowerOff(i)] # 0
    /\ Allocated(entries) # {}

\* C20: when plx_a_lut_clear has returned, every segment is FREE with
\* reference count 0 and the permission field of every entry of
\* [0, segments_num) is zero, whatever runs were allocated before; its
\* register writes are those of its loop over the entries (three writes of
\* zero per entry), the reset of the bookkeeping adds none.
C20_ClearFreesAndDisablesAll ==
    (last.op = "clear") =>
        /\ \A i \in Segs : entries[i].counter = 0 /\ entries[i] = FreeEntry
        /\ \A i \in Segs : regs[PermOff(i)] = 0
        /\ Len(log) = 3 * segments_num
        /\ \A j \in 1 .. Len(log) :
               /\ log[j].k = "write" /\ log[j].val = 0
               /\ log[j].off \in RegOffsets(a_lut_array_base, segments_num)

\* C20 witness: the table was cleared with every segment allocated, one run
\* mapped twice.
C20_Witness ==
    /\ last.op = "clear"
    /\ Allocated(pre) = Segs
    /\ \E i \in Segs : pre[i].counter = 2

\* C14: after a successful init, in every state map, unmap and reset lead
\* to, segment_size is a power of two, is the value init derived from the
\* aperture, and segments_num * segment_size is at most the aperture length.
C14_SegmentSizeFixedPowerOfTwo ==
    /\ \E k \in 0 .. segment_size : segment_size = 2 ^ k
    /\ segment_size = plx_alm_init(NumSegs, aper_len).segment_size
    /\ segments_num >= 1
    /\ segments_num * segment_size <= aper_len

\* C14 witness: after maps, an unmap and a reset, on an aperture that is not
\* a whole number of segments.
C14_Witness ==
    /\ segments_num * segment_size < aper_len
    /\ last.op = "clear"
    /\ Allocated(pre) # {}

\* C13: while callers hold the run of a mapped range, every further map of
\* the same (addr, size) returns the address the first map of it returned,
\* whatever maps and unmaps of other ranges were made in between.
C13_StableTranslatedAddress ==
    watch.on => watch.ok

\* C13 witness: a range not mapped at segment 0 was mapped again after
\* other calls, while a lower segment was free.
C13_Witness ==
    /\ watch.on /\ watch.again /\ watch.between
    /\ watch.out >= segment_size
    /\ entries[0].counter = 0

\* The reference counts of the table of the example.
ExampleCounts(c0, c1, c2, c3) ==
    /\ entries[0].counter = c0 /\ entries[1].counter = c1
    /\ entries[2].counter = c2 /\ entries[3].counter = c3

\* C12, the example as section 8 states it: map(0x1800, 0x900) occupies
\* segments 1 and 2 and returns 0x1800; map(0x1050, 0x10) is the same run,
\* raises its count to 2 and returns 0x1050; unmap(0x1800) lowers the count
\* to 1 and writes no register; unmap(0x1050) lowers it to 0 and clears
\* entries 1 and 2. It asks of plx_alm_add_entry a run placed at
\* addr / segment_size and a match of a range that lies inside an allocated
\* run; under section 4.1 (first fit, a run "covering exactly that masked
\* range") the calls run as in the next definition. Which of the two
\* plx_alm.c does is not in the sources, and the example is left open.
C12_ExampleAsStated ==
    /\ script = SubSeq(ExampleAsStated, 1, 1) =>
           /\ ExampleCounts(0, 1, 1, 0)
           /\ last.addr_out = 6144
    /\ script = SubSeq(ExampleAsStated, 1, 2) =>
           /\ ExampleCounts(0, 2, 2, 0)
           /\ last.addr_out = 4176
    /\ script = SubSeq(ExampleAsStated, 1, 3) =>
           /\ ExampleCounts(0, 1, 1, 0)
           /\ ~HasWrite(log)
    /\ script = ExampleAsStated =>
           /\ ExampleCounts(0, 0, 0, 0)
           /\ regs[PermOff(1)] = 0 /\ regs[PermOff(2)] = 0
           /\ HasWrite(log)

\* The example under section 4.1: on the empty table map(0x1800, 0x900)
\* occupies segments 0 and 1 (first fit), programs them with 0x1000 and
\* 0x2000 and returns 0x800;
\* map(0x1050, 0x10) spans one segment, matches no run, is given segment 2
\* with count 1 and returns 0x2050; the unmap of 0x800 frees segments 0 and 1
\* and clears their permission; the unmap of 0x2050 frees segment 2 and
\* clears its permission.
C12_ExampleAsRun ==
    /\ script = SubSeq(ExampleAsRun, 1, 1) =>
           /\ ExampleCounts(1, 1, 0, 0)
           /\ last.ret = 0 /\ last.addr_out = 2048
           /\ regs[LowerOff(0)] = 4096 /\ regs[LowerOff(1)] = 8192
           /\ regs[PermOff(0)] = PermRW /\ regs[PermOff(1)] = PermRW
    /\ script = SubSeq(ExampleAsRun, 1, 2) =>
           /\ ExampleCounts(1, 1, 1, 0)
           /\ last.err = 0 /\ last.segment_id = 2 /\ last.segments_num = 1
           /\ last.ret = 0 /\ last.addr_out = 8272
           /\ regs[LowerOff(2)] = 4096 /\ regs[PermOff(2)] = PermRW
    /\ script = SubSeq(ExampleAsRun, 1, 3) =>
           /\ ExampleCounts(0, 0, 1, 0)
           /\ last.start = 0 /\ last.segments_num = 2
           /\ regs[PermOff(0)] = 0 /\ regs[PermOff(1)] = 0
           /\ regs[PermOff(2)] = PermRW
    /\ script = ExampleAsRun =>
           /\ ExampleCounts(0, 0, 0, 0)
           /\ last.start = 2 /\ last.segments_num = 1
           /\ \A i \in Segs : regs[PermOff(i)] = 0

\* The four calls of the example were made, in order, from the empty table.
C12_Witness ==
    /\ script = ExampleAsRun
    /\ last.op = "unmap" /\ last.addr = 8272

\* The caller is between spin_lock and spin_unlock.
InCall(p) == procs[p].pc \notin {"idle", "called"}

\* The segments of the new run the manager gave the map of p, once written
\* to the bookkeeping.
NewRunOf(p) ==
    IF procs[p].op = "map" /\ procs[p].r.err = 0
       /\ procs[p].pc \in {"hi", "lo", "perm", "drain", "unlock"}
    THEN procs[p].r.segment_id .. (procs[p].r.segment_id + procs[p].r.segments_num - 1)
    ELSE {}

\* The segments of the windows callers hold.
HeldSegs == UNION { s .. (s + hist[s].n - 1) : s \in { t \in Segs : hist[t].out >= 1 } }

\* No two calls are between spin_lock and spin_unlock at once.
OneInCall ==
    /\ \A p \in Procs, q \in Procs : (InCall(p) /\ InCall(q)) => p = q
    /\ (alm_lock = 1) <=> (\E p \in Procs : InCall(p))

\* A new run shares no segment with a window callers hold, nor with the new
\* run of another call.
RunsDisjoint ==
    \A p \in Procs :
        /\ NewRunOf(p) \cap HeldSegs = {}
        /\ \A q \in Procs \ {p} : NewRunOf(p) \cap NewRunOf(q) = {}

\* With no call inside the lock, the table is as the callers' windows say:
\* the segments of a held window belong to one run of its base, counted once
\* per holder and programmed for it, and no other segment is allocated.
WindowsIntact ==
    (\A p \in Procs : ~InCall(p)) =>
        /\ Allocated(entries) = HeldSegs
        /\ \A s \in Segs :
               hist[s].out >= 1 =>
                   \A i \in s .. (s + hist[s].n - 1) :
                       /\ entries[i].start = s
                       /\ entries[i].value = hist[s].base
                       /\ entries[i].counter = hist[s].out
                       /\ regs[PermOff(i)] = PermRW
                       /\ regs[LowerOff(i)] = Lo32(hist[s].base + (i - s) * segment_size)
                       /\ regs[HigherOff(i)] = Hi32(hist[s].base + (i - s) * segment_size)

\* C11: under every interleaving of the steps of concurrent map and unmap
\* calls, the allocation decision of a call and its register writes are one
\* critical section: no two calls are inside it at once, no segment is given
\* to two runs, and the entries of a run are programmed, and cleared, without
\* the writes of another call among them.
C11_SingleCriticalSection ==
    /\ OneInCall
    /\ RunsDisjoint
    /\ WindowsIntact

\* C11 witness: a map is between the low and the permission write of the
\* second entry of its run, while the other caller, who holds a window,
\* waits for the lock inside a call.
C11_Witness ==
    \E p \in Procs, q \in Procs :
        /\ procs[p].pc = "perm" /\ procs[p].i = procs[p].r.segment_id + 1
        /\ procs[q].pc = "called"
        /\ alm_lock = 1
        /\ HeldSegs # {}

\* The call that returned went through _plx_a_lut_enable: plx_hw_init past
\* its early returns.
EnableRan ==
    /\ last.op = "attach"
    /\ \E j \in 1 .. Len(log) : log[j].k = "lock"

FirstLock(l) == SetMin({ j \in 1 .. Len(l) : l[j].k = "lock" })

FirstUnlock(l) == SetMin({ j \in 1 .. Len(l) : l[j].k = "unlock" })

\* The writes of the call to the entries of the table, and its writes of v
\* to the control register.
EntryWrites(l) ==
    { j \in 1 .. Len(l) :
          l[j].k = "write" /\ l[j].off \in RegOffsets(a_lut_array_base, NumSegs) }

ControlWrites(l, c, v) == { j \in 1 .. Len(l) : l[j] = Ev("write", c, v) }

\* The caller is inside _plx_a_lut_enable, past its disable write.
Clearing(p) ==
    /\ procs[p].op = "attach"
    /\ procs[p].pc \in {"reset", "zero_perm", "zero_hi", "zero_lo", "enable"}

\* C21: when plx_hw_init returns 0, the permission field of every entry of
\* the table plx_alm_init laid out is clear and every segment is FREE: no
\* entry an earlier attach enabled is left behind the enabled table.
C21_AttachLeavesTableClear ==
    (last.op = "attach" /\ last.ret = 0) =>
        \A i \in Segs : regs[PermOff(i)] = 0 /\ entries[i].counter = 0

\* C22: _plx_a_lut_enable takes the lock, writes the control register to
\* disabled before it clears any entry, writes it to enabled after the last
\* clear and only when a_lut_peer is set, and releases the lock after that:
\* one critical section, with the table disabled while entries are cleared.
C22_DisableClearEnableUnderLock ==
    /\ \A p \in Procs :
           Clearing(p) => alm_lock = 1 /\ regs[ControlOff(dev.reg_base)] = 0
    /\ EnableRan =>
           LET c == ControlOff(dev.reg_base)
               s == FirstLock(log)
               u == FirstUnlock(log)
               enables == ControlWrites(log, c, PLX_A_LUT_ENABLE)
           IN  /\ s < u
               /\ log[s + 1] = Ev("write", c, 0)
               /\ ControlWrites(log, c, 0) = {s + 1}
               /\ \A j \in (s + 1) .. (u - 1) : log[j].k = "write"
               /\ \A j \in EntryWrites(log) :
                      s + 1 < j /\ j < u /\ log[j].val = 0
               /\ (enables # {}) <=> dev.a_lut_peer
               /\ \A j \in enables : j = u - 1 /\ \A k \in EntryWrites(log) : k < j

\* C22 witness: the attach of a port whose table of NumSegs entries serves
\* the peer and was in use before; every entry was cleared between the two
\* control writes.
C22_Witness ==
    /\ EnableRan /\ dev.a_lut_peer
    /\ Cardinality(EntryWrites(log)) = 3 * NumSegs
    /\ ControlWrites(log, ControlOff(dev.reg_base), PLX_A_LUT_ENABLE)
           = {FirstLock(log) + 3 * NumSegs + 2}

\* C29: whenever the lock is free, entry i of the attached port is enabled
\* read+write iff segment i is ALLOCATED, and then its remap fields hold the
\* masked base of its run plus (i - run start) * segment_size.
C29_HardwareMirrorsBookkeeping ==
    (dev.attached /\ alm_lock = 0) =>
        \A i \in Segs :
            /\ (regs[PermOff(i)] = PermRW) <=> (entries[i].counter > 0)
            /\ entries[i].counter > 0 =>
                   LET a == entries[i].value + (i - entries[i].start) * segment_size
                   IN  /\ regs[LowerOff(i)] = Lo32(a)
                       /\ regs[HigherOff(i)] = Hi32(a)

\* The caller is between a spin_lock and the spin_unlock that follows it.
HoldsLock(p) ==
    \/ procs[p].pc \in {"alm", "commit", "hi", "lo", "perm", "drain", "clr",
                        "unlock", "failed", "release", "exit", "alm_init",
                        "alm_exit"}
    \/ procs[p].op = "attach" /\ procs[p].pc = "disable"
    \/ Clearing(p)

\* C30: every operation that takes the A-LUT lock releases it on every exit
\* path: with no caller inside a call, after map (new run, already exists,
\* no space), unmap, reset, attach and detach, the lock is free; only a
\* caller between its spin_lock and its spin_unlock holds it; and every
\* call that was started returns.
C30_LockReleasedAndCallsReturn ==
    /\ [](Quiet => alm_lock = 0)
    /\ [](alm_lock = 1 => \E p \in Procs : HoldsLock(p))
    /\ \A p \in Procs : (procs[p].pc # "idle") ~> (procs[p].pc = "idle")

\* C30 witness: a map that found no space is about to leave through its
\* failure exit while the other caller spins on the lock.
C30_Witness ==
    \E p \in Procs, q \in Procs :
        /\ procs[p].pc = "failed"
        /\ procs[q].pc = "spin" /\ procs[q].op = "unmap"
        /\ alm_lock = 1

\* The grace period of a reset whose check read the clock at time and the
\* recorded timestamp ts.
InWindow(time, ts) ==
    ts <= time /\ time < ts + msecs_to_jiffies(RESET_GRACE_PERIOD_MS)

WakeKinds == {"elapsed", "completed", "interrupted"}

\* C23: a reset trigger whose check finds ts <= now < ts + grace period is
\* ignored: it writes no timestamp, drives no GPIO bit and calls neither
\* reset start nor reset stop. A trigger outside the period records the
\* clock as ts before it begins the pulse, and again after the bit was
\* released, before reset stop.
C23_ResetGraceWindow ==
    \A p \in Procs :
        LET c == procs[p]
        IN  c.op = "reset" =>
                /\ c.pc = "r_check" => c.ev = << "check" >>
                /\ (\E j \in 1 .. Len(c.ev) : c.ev[j] = "ignored") =>
                       /\ InWindow(c.time, c.ts0)
                       /\ c.ev = << "check", "ignored" >>
                       /\ c.pc = "done"
                /\ c.pc = "r_start" =>
                       /\ ~InWindow(c.time, c.ts0)
                       /\ c.ev = << "check", "stamp" >>
                       /\ c.time <= dev.reset_ts[c.cpu]
                       /\ dev.reset_ts[c.cpu] <= env.jiffies
                /\ c.pc = "sb_lock1" =>
                       /\ ~InWindow(c.time, c.ts0)
                       /\ c.ev = << "check", "stamp", "reset_start" >>
                       /\ c.time <= dev.reset_ts[c.cpu]
                       /\ dev.reset_ts[c.cpu] <= env.jiffies
                       /\ c.clean /\ ~c.high
                /\ c.pc \in {"r_unlock2", "r_sleep", "r_stop"} =>
                       /\ dev.reset_ts[c.cpu] <= env.jiffies
                       /\ \E w \in WakeKinds :
                              c.ev = << "check", "stamp", "reset_start", "low", w,
                                        "high", "stamp" >>
                /\ (c.pc = "done" /\ Len(c.ev) > 2) =>
                       \E w \in WakeKinds :
                           c.ev = << "check", "stamp", "reset_start", "low", w,
                                     "high", "stamp", "reset_stop" >>

\* C23 witness: a trigger was ignored one jiffy after the reset before it
\* recorded its time, while that reset, begun outside the period, has
\* released its pulse and recorded the time again.
C23_Witness ==
    \E p \in Procs, q \in Procs :
        /\ procs[p].op = "reset" /\ procs[p].ev = << "check", "ignored" >>
        /\ procs[p].time = procs[p].ts0 + 1
        /\ procs[p].ts0 > InitialJiffies
        /\ procs[q].op = "reset" /\ procs[q].pc = "r_unlock2"

\* C24: signal_bit drives its bit low, keeps it low until ms milliseconds
\* have elapsed or the completion is completed, and drives it high: the
\* release timestamp is recorded before that write, the bit is 1 after it,
\* and no write of the call changed another bit.
C24_PulseHeldThenReleased ==
    \A p \in Procs :
        LET c == procs[p]
            pulse == SelectSeq(c.ev, LAMBDA e : e \in WakeKinds
                                                 \cup {"low", "release_ts", "high"})
        IN  /\ c.clean
            /\ (\E j \in 1 .. Len(c.ev) : c.ev[j] = "high") =>
                   /\ c.high
                   /\ \E w \in {"elapsed", "completed"} :
                          pulse = IF c.op = "power"
                                  THEN << "low", w, "release_ts", "high" >>
                                  ELSE << "low", w, "high" >>

\* C25: a press with a wait_start completes it once before it returns,
\* whether the CPU id is unknown, the card has no power button or the
\* button is pressed; when it is pressed, only after the power bit was
\* written low.
C25_WaitStartCompleted ==
    \A p \in Procs :
        LET c == procs[p]
            done == { j \in 1 .. Len(c.ev) : c.ev[j] = "complete_all" }
        IN  c.op = "power" =>
                /\ Cardinality(done) <= 1
                /\ (done # {}) => c.ws
                /\ (c.pc = "done" /\ c.ws) => done # {}
                /\ (c.ts_req /\ done # {}) => done = {2} /\ c.ev[1] = "low"
                /\ ~c.ts_req => c.pc \in {"done"}

\* C25 witness: a press of the button of CPU 0 with a wait_start has
\* returned: the bit was written low, wait_start completed, the pulse held
\* for its time, and the bit released.
C25_Witness ==
    \E p \in Procs :
        /\ procs[p].op = "power" /\ procs[p].pc = "done" /\ procs[p].ws
        /\ procs[p].ev = << "low", "complete_all", "elapsed", "release_ts", "high" >>

\* The caller p is inside plx_update_eeprom, or at its return.
InUpdate(p) == procs[p].pc \notin {"idle", "hold"}

\* The caller p is between mutex_lock and mutex_unlock of mmio_lock.
Holds(p) == procs[p].pc \notin {"idle", "lock", "done"}

\* If mmio_lock is held, it is by another caller than p.
LockLeft(p) == dev.mmio_lock = 1 => \E q \in Procs \ {p} : Holds(q)

\* C26: plx_update_eeprom validates the image (length, configuration-size
\* alignment, size match, signature, CRC) before it touches the device: a
\* call with an image that eeprom_validate rejects is at its return with
\* that error, has written no register, sent no EEPROM command and not
\* taken mmio_lock.
C26_ValidationBeforeDevice ==
    \A p \in Procs :
        (InUpdate(p) /\ procs[p].img \in BadImages) =>
            /\ procs[p].pc = "done"
            /\ procs[p].ret = PLX_EEP_INTERNAL_ERROR
            /\ procs[p].ret = eeprom_validate(procs[p].img, Len(procs[p].img))
            /\ procs[p].io = {}
            /\ procs[p].written = <<>>

\* C26 witness: an image whose only fault is its CRC has been refused while
\* another user held mmio_lock, on a chip that an earlier call has written.
C26_Witness ==
    /\ procs["p"].pc = "done"
    /\ procs["p"].img = [ImageA EXCEPT ![Len(ImageA)] = (@ + 1) % 256]
    /\ procs["p"].ret = PLX_EEP_INTERNAL_ERROR
    /\ procs["p"].io = {}
    /\ dev.mmio_lock = 1
    /\ env.mem[0] = Bytes(ImageB, 0, 4)

\* The offsets of the loop of plx_update_eeprom over eeprom_size bytes.
WordOffsets(eeprom_size) == [k \in 1 .. (eeprom_size + 3) \div 4 |-> 4 * (k - 1)]

\* The EEPROM holds the bytes of the image at offset.
Stored(img, offset) ==
    LET n == IF Len(img) - offset < 4 THEN Len(img) - offset ELSE 4
    IN Bytes(env.mem[offset \div 4], 0, n) = Bytes(img, offset, n)

\* C27: plx_update_eeprom returns PLX_EEP_STATUS_OK only if every word of
\* the image was written and read back equal, in ascending order of offset
\* (so that the EEPROM holds the image); at the first failed write, failed
\* read or mismatch it stops, writes no later word and returns
\* PLX_EEP_TIMEOUT or PLX_EEP_INTERNAL_ERROR; on every path it has released
\* mmio_lock when it returns.
C27_AllWordsVerifiedOrStopped ==
    \A p \in Procs :
        LET c == procs[p]
            all == WordOffsets(Len(c.img))
        IN /\ (InUpdate(p) /\ c.img \in GoodImages) =>
                  /\ IsPrefix(c.verified, c.written)
                  /\ IsPrefix(c.written, all)
                  /\ Len(c.written) <= Len(c.verified) + 1
           /\ (c.pc = "done" /\ c.img \in GoodImages) =>
                  /\ c.ret \in {PLX_EEP_STATUS_OK, PLX_EEP_TIMEOUT,
                                PLX_EEP_INTERNAL_ERROR}
                  /\ c.ret = PLX_EEP_STATUS_OK =>
                         /\ c.written = all
                         /\ c.verified = all
                         /\ \A k \in 1 .. Len(all) : Stored(c.img, all[k])
                  /\ c.ret # PLX_EEP_STATUS_OK => c.verified # all
           /\ c.pc = "done" => LockLeft(p)

\* C27 witness: the image with a tail of two bytes has been written and
\* verified to its end, after status commands that found the chip busy.
C27_Witness ==
    /\ procs["p"].pc = "done"
    /\ procs["p"].img = ImageA
    /\ procs["p"].ret = PLX_EEP_STATUS_OK
    /\ procs["p"].verified = <<0, 4, 8, 12>>
    /\ procs["p"].rseen = <<"busy", "ready">>
    /\ dev.mmio_lock = 0

\* Every poll of s found the command status set.
AllSet(s) == \A k \in 1 .. Len(s) : s[k] = 1

\* Every status command of s found the chip busy.
AllBusy(s) == \A k \in 1 .. Len(s) : s[k] = "busy"

\* The caller is inside eeprom_wait_for_access_ready.
InAccessReady(p) ==
    /\ procs[p].pc \in {"ready_send", "poll", "ready_check"}
    /\ procs[p].ar = "none"

\* C28: the polling loops of the EEPROM end. eeprom_wait_for_cmd_complete
\* returns PLX_EEP_STATUS_OK at the first poll that finds the command status
\* clear, and PLX_EEP_TIMEOUT after exactly PLX_EEP_WAIT_TRIES polls that
\* found it set; eeprom_wait_for_access_ready sends at most
\* PLX_EEP_WAIT_TRIES status commands, and when one of them times out it
\* returns that error at once, with no further command.
C28_PollingLoopsEnd ==
    /\ [](\A p \in Procs :
            LET c == procs[p]
                n == Len(c.seen)
                cmd == regs[PLX_EEP_STATUS_CONTROL]
            IN /\ n <= PLX_EEP_WAIT_TRIES
               /\ c.scmds <= PLX_EEP_WAIT_TRIES
               /\ c.cw = "none" => n < PLX_EEP_WAIT_TRIES /\ AllSet(c.seen)
               /\ c.cw = PLX_EEP_STATUS_OK =>
                      /\ n >= 1
                      /\ c.seen[n] = 0
                      /\ AllSet(SubSeq(c.seen, 1, n - 1))
               /\ c.cw = PLX_EEP_TIMEOUT =>
                      /\ n = PLX_EEP_WAIT_TRIES
                      /\ AllSet(c.seen)
                      /\ c.pc \in {"unlock", "done"}
                      /\ c.ret = PLX_EEP_TIMEOUT
                      /\ cmd.eep_cmd = c.status.eep_cmd
                      /\ cmd.eep_cmd_status = 1
               /\ c.ar = PLX_EEP_STATUS_OK =>
                      /\ Len(c.rseen) = c.scmds
                      /\ c.rseen[c.scmds] = "ready"
                      /\ AllBusy(SubSeq(c.rseen, 1, c.scmds - 1))
               /\ c.ar = PLX_EEP_TIMEOUT =>
                      /\ AllBusy(c.rseen)
                      /\ c.pc \in {"unlock", "done"}
                      /\ c.ret = PLX_EEP_TIMEOUT
                      /\ IF c.cw = PLX_EEP_TIMEOUT
                         THEN /\ c.scmds = Len(c.rseen) + 1
                              /\ cmd.eep_cmd = PLX_EEP_CMD_READ_STATUS
                         ELSE /\ c.scmds = Len(c.rseen)
                              /\ c.scmds = PLX_EEP_WAIT_TRIES)
    /\ \A p \in Procs : (procs[p].pc = "poll") ~> (procs[p].pc # "poll")
    /\ \A p \in Procs : InAccessReady(p) ~> ~InAccessReady(p)

\* C28 witness: the second status command of an access has timed out after
\* the first found the chip busy, and the call is on its way out.
C28_Witness ==
    /\ procs["p"].pc = "unlock"
    /\ procs["p"].ar = PLX_EEP_TIMEOUT
    /\ procs["p"].cw = PLX_EEP_TIMEOUT
    /\ procs["p"].rseen = <<"busy">>
    /\ procs["p"].scmds = 2
    /\ procs["p"].written = <<0>>

\* The segment that the last call's address falls in.
LastSegment == DelSegmentId(last.addr, segment_size)

\* The last call was an unmap of an address of the table whose segment was
\* FREE when it was made.
UnmapOfFree ==
    /\ last.op = "unmap"
    /\ last.addr < segments_num * segment_size
    /\ pre[LastSegment].counter = 0

\* C31, with plx_alm_del_entry read as above (a FREE segment is in no run):
\* an unmap of an address of the table whose segment is FREE (never mapped,
\* or unmapped already) changes nothing: every reference count and every run
\* is as before, none is below 0, and no register is written; the call only
\* takes and releases the lock. The part of plx_hw.c is that a register is
\* written only for the segments plx_alm_del_entry reports freed; what it
\* reports and does for a FREE segment is in plx_alm.c, and the claim is left
\* open.
C31_UnmapOfFreeIsNoOp ==
    /\ \A i \in DOMAIN entries : entries[i].counter >= 0
    /\ UnmapOfFree =>
           /\ entries = pre
           /\ ~HasWrite(log)
           /\ last.segments_num = 0
           /\ HasLock(log)
           /\ alm_lock = 0

\* A second unmap of a segment that was mapped and freed (its
\* remap address is still in the table), beside a run that stays allocated.
C31_Witness ==
    /\ UnmapOfFree
    /\ regs[LowerOff(LastSegment)] # 0
    /\ Allocated(entries) # {}

\* The reset call of p has read the clock for its grace check.
ClockRead(p) == procs[p].op = "reset" /\ procs[p].ev # << >>

\* The reset call of p has passed the grace check.
PassedGuard(p) ==
    /\ ClockRead(p)
    /\ procs[p].pc # "r_check"
    /\ \A j \in 1 .. Len(procs[p].ev) : procs[p].ev[j] # "ignored"

\* The reset calls of p and q are for one node and read the clock within
\* the grace period of each other.
CloseResets(p, q) ==
    /\ p # q
    /\ ClockRead(p) /\ ClockRead(q)
    /\ procs[p].cpu = procs[q].cpu
    /\ procs[p].time - procs[q].time < msecs_to_jiffies(RESET_GRACE_PERIOD_MS)
    /\ procs[q].time - procs[p].time < msecs_to_jiffies(RESET_GRACE_PERIOD_MS)

\* C32: the grace check and the update of the timestamp are one step under
\* the node's reset_lock: of two plx_card_reset calls for one node that read
\* the clock within the grace period of each other, at most one passes the
\* check and drives the reset bit, and the two are never between the lock
\* and the unlock of the check at once.
C32_OneResetPerGracePeriod ==
    \A p \in Procs, q \in Procs :
        /\ CloseResets(p, q) => ~(PassedGuard(p) /\ PassedGuard(q))
        /\ (p # q /\ procs[p].op = "reset" /\ procs[q].op = "reset"
                /\ procs[p].cpu = procs[q].cpu)
               => ~(procs[p].pc = "r_check" /\ procs[q].pc = "r_check")

\* C32 witness: while one reset holds its bit low, a second one for the
\* same node, which read the clock one jiffy later, has been ignored.
C32_Witness ==
    \E p \in Procs, q \in Procs :
        /\ CloseResets(p, q)
        /\ PassedGuard(p) /\ procs[p].pc = "sb_wait"
        /\ procs[q].ev = << "check", "ignored" >>
        /\ procs[q].time = procs[p].time + 1

InSection(p) == procs[p].pc \in {"sb_low", "sb_high", "b_write", "b_sleep"}

\* C33: every read-modify-write of the GPIO register through one device is
\* atomic under mmio_lock: between the read and the write of a call the lock
\* is held, no other call is between its read and its write and the register
\* still holds the value the call read, so every write (of signal_bit's assert
\* and release, _set_bit, _clear_bit, plx_set_SMB_id) changes the call's own
\* bits only and no change of another call is lost.
C33_GpioUpdatesAtomic ==
    /\ \A p \in Procs :
           /\ InSection(p) => dev.mmio_lock = 1
           /\ procs[p].pc \in {"sb_low", "sb_high", "b_write"}
                  => procs[p].data = regs[GPIO_REG]
           /\ procs[p].clean
    /\ \A p \in Procs, q \in Procs : p # q => ~(InSection(p) /\ InSection(q))

\* A pulse is being given (its bit is low), the other caller has changed
\* other bits in between and now waits for the lock, which the first holds
\* for the release.
C33_Witness ==
    /\ procs["p"].pc = "sb_high"
    /\ procs["p"].op = "power"
    /\ procs["q"].pc = "b_lock"
    /\ procs["q"].op = "clear"
    /\ And(regs[GPIO_REG], plx_bios_rcv_bits(0)) # 0
    /\ And(regs[GPIO_REG], plx_bios_rcv_bits(1)) = 0
    /\ And(regs[GPIO_REG], procs["p"].bit) = 0

\* C34: plx_update_eeprom terminates for every image that eeprom_validate
\* accepts: whenever the call comes back to the head of its loop the 16-bit
\* offset has grown, so it reaches the end of the image without wrapping to
\* 0 and writing the EEPROM from offset 0 again.
C34_OffsetReachesEnd ==
    [][\A p \in Procs :
           (procs[p].pc = "read_buf" /\ procs'[p].pc = "loop")
               => procs'[p].offset > procs[p].offset]_vars

\* C35: plx_read_dma_mapped_mem leaks no A-LUT reference: the references
\* its plx_iounmap released are, segment by segment, those its plx_ioremap
\* took, so that the call leaves the status and the reference count of
\* every segment as they would be without it; a call whose plx_ioremap
\* failed took none and returns 0. It holds of the reads of DmaReads while no
\* other user unmaps a window it does not hold. A read of size 0 from a
\* segment boundary hands plx_alm_add_entry a range that spans no segment,
\* whose answer is in plx_alm.c: the claim is left open.
C35_ReadLeavesTableUnchanged ==
    last.op = "read_dma" =>
        /\ last.released = last.taken
        /\ last.addr_out = NoAddr =>
               /\ last.ret = 0
               /\ \A i \in DOMAIN last.taken : last.taken[i] = 0

====
